---- MODULE Spec2Model ----
(***************************************************************************)
(* FinCheck: the category registry, the transaction ledger and the         *)
(* aggregation code of the views, as a state machine over the two          *)
(* Realtime Database collections of one user.                              *)
(*                                                                         *)
(* Encodings.  A string that the code inspects (trim, length, lower case,  *)
(* hex pattern) is a sequence of one-character strings.  A date string     *)
(* "YYYY-MM-DD" is the triple <<y, m, d>>.  An instant (a JS Date) is a     *)
(* number of minutes since 1970-01-01T00:00Z.  A database key is a natural  *)
(* number, 0 standing for the empty string.  A stored record is a function  *)
(* whose DOMAIN is the set of fields the record holds, so a field that is   *)
(* undefined in JS is a field outside the DOMAIN.  Amounts are integers     *)
(* (minor units).  A JS number that may be NaN is [nan, v].                 *)
(***************************************************************************)
EXTENDS Integers, Sequences, FiniteSets, TLC

VARIABLES
    categories,     \* categories/{userId}: key -> stored category
    transactions,   \* transactions/{userId}: key -> stored transaction
    nextCatKey,     \* next key push() hands out under categories/{userId}
    nextTxKey,      \* next key push() hands out under transactions/{userId}
    now,            \* the clock, minutes since the epoch (UTC)
    tz,             \* the browser's offset from UTC in minutes (local = UTC + tz)
    result,         \* the last controller or view call: [op, success, message, id, data]
    pending,        \* the calls that are waiting on a store call: caller -> [op, pc, arg]
    currentUser     \* AuthService.currentUser: NoUser (null) or the uid of the signed-in user

vars == <<categories, transactions, nextCatKey, nextTxKey, now, tz, result, pending, currentUser>>

NoUser == "null"

userId == "u1"

(***************************************************************************)
(* Strings                                                                 *)
(***************************************************************************)
Whitespace == {" "}

RECURSIVE trimStart(_)
trimStart(s) ==
    IF s # <<>> /\ Head(s) \in Whitespace THEN trimStart(Tail(s)) ELSE s

RECURSIVE trimEnd(_)
trimEnd(s) ==
    IF s # <<>> /\ s[Len(s)] \in Whitespace
    THEN trimEnd(SubSeq(s, 1, Len(s) - 1)) ELSE s

trim(s) == trimEnd(trimStart(s))

isNotEmpty(value) == Len(trim(value)) > 0

UpperLetters ==
    <<"A","B","C","D","E","F","G","H","I","J","K","L","M","N","O","P","Q","R",
      "S","T","U","V","W","X","Y","Z","Á","Ã","Ç","É","Ú">>
LowerLetters ==
    <<"a","b","c","d","e","f","g","h","i","j","k","l","m","n","o","p","q","r",
      "s","t","u","v","w","x","y","z","á","ã","ç","é","ú">>

toLowerCaseChar(c) ==
    IF \E i \in 1..Len(UpperLetters) : UpperLetters[i] = c
    THEN LowerLetters[CHOOSE i \in 1..Len(UpperLetters) : UpperLetters[i] = c]
    ELSE c

toLowerCase(s) == [i \in 1..Len(s) |-> toLowerCaseChar(s[i])]

\* /^#([A-Fa-f0-9]{6}|[A-Fa-f0-9]{3})$/
hexColorRegex(cor) ==
    /\ Len(cor) \in {4, 7}
    /\ cor[1] = "#"
    /\ \A i \in 2..Len(cor) :
            cor[i] \in {"0","1","2","3","4","5","6","7","8","9",
                        "a","b","c","d","e","f","A","B","C","D","E","F"}

(***************************************************************************)
(* Dates: new Date("YYYY-MM-DD") is midnight UTC of that civil day; the     *)
(* getters getFullYear/getMonth/setDate/setHours/setFullYear work in local  *)
(* time, toISOString in UTC.                                               *)
(***************************************************************************)
MinutesPerDay == 24 * 60

DaysFromCivil(y, m, d) ==
    LET yy  == IF m <= 2 THEN y - 1 ELSE y
        era == yy \div 400
        yoe == yy - era * 400
        mp  == (m + 9) % 12
        doy == (153 * mp + 2) \div 5 + d - 1
        doe == yoe * 365 + yoe \div 4 - yoe \div 100 + doy
    IN  era * 146097 + doe - 719468

CivilFromDays(z) ==
    LET zz  == z + 719468
        era == zz \div 146097
        doe == zz - era * 146097
        yoe == (doe - doe \div 1460 + doe \div 36524 - doe \div 146096) \div 365
        doy == doe - (365 * yoe + yoe \div 4 - yoe \div 100)
        mp  == (5 * doy + 2) \div 153
        d   == doy - (153 * mp + 2) \div 5 + 1
        m   == IF mp < 10 THEN mp + 3 ELSE mp - 9
        y   == yoe + era * 400 + (IF m <= 2 THEN 1 ELSE 0)
    IN  <<y, m, d>>

DaysInMonth(y, m) ==
    IF m = 2 THEN (IF (y % 4 = 0 /\ y % 100 # 0) \/ y % 400 = 0 THEN 29 ELSE 28)
    ELSE IF m \in {4, 6, 9, 11} THEN 30 ELSE 31

\* new Date(data).getTime(), in minutes, of a date string that parses
DateParse(data) == DaysFromCivil(data[1], data[2], data[3]) * MinutesPerDay

\* date.toISOString().split('T')[0]
toISODate(instant) == CivilFromDays(instant \div MinutesPerDay)

\* the local civil day of an instant: <<getFullYear(), getMonth() + 1, getDate()>>
LocalCivil(instant, offset) == CivilFromDays((instant + offset) \div MinutesPerDay)

\* date.getFullYear(), date.getMonth() (0-based, as in JS)
getFullYear(instant, offset) == LocalCivil(instant, offset)[1]
getMonth(instant, offset) == LocalCivil(instant, offset)[2] - 1

\* date.setDate(date.getDate() + n): n local days later, same local time of day
addDays(instant, n) == instant + n * MinutesPerDay

(***************************************************************************)
(* Records and JS numbers                                                  *)
(***************************************************************************)
Has(r, f) == f \in DOMAIN r

\* { ...a, ...b }
Spread(a, b) ==
    [f \in DOMAIN a \cup DOMAIN b |-> IF f \in DOMAIN b THEN b[f] ELSE a[f]]

Num(v) == [nan |-> FALSE, v |-> v]
NaN == [nan |-> TRUE, v |-> 0]
NumAdd(a, b) == IF a.nan \/ b.nan THEN NaN ELSE Num(a.v + b.v)
NumSub(a, b) == IF a.nan \/ b.nan THEN NaN ELSE Num(a.v - b.v)
NumGt(a, b) == ~a.nan /\ ~b.nan /\ a.v > b.v
NumGe(a, b) == ~a.nan /\ ~b.nan /\ a.v >= b.v

\* transaction.valor read as a number: undefined adds as NaN
valorOf(t) == IF Has(t, "valor") THEN Num(t.valor) ELSE NaN

\* Object.values(snapshot.val()): the children in key order
RECURSIVE ObjectValues(_)
ObjectValues(store) ==
    IF DOMAIN store = {} THEN <<>>
    ELSE LET k == CHOOSE x \in DOMAIN store : \A y \in DOMAIN store : x <= y
         IN  <<store[k]>> \o ObjectValues([j \in DOMAIN store \ {k} |-> store[j]])

\* set(ref(database, path/key), value)
DbSet(store, key, value) ==
    [k \in DOMAIN store \cup {key} |-> IF k = key THEN value ELSE store[k]]

\* remove(ref(database, path/key))
DbRemove(store, key) == [k \in DOMAIN store \ {key} |-> store[k]]

(***************************************************************************)
(* Outcomes                                                                *)
(***************************************************************************)

NoData == <<>>

\* a call's outcome: id is the key a create returns (0 when none), data the
\* records it returns (none, one summary, or a list)
Response(op, success, message, id, data) ==
    [op |-> op, success |-> success, message |-> message, id |-> id, data |-> data]

(***************************************************************************)
(* Validation                                                              *)
(***************************************************************************)
MIN_NAME_LENGTH == 2
MAX_NAME_LENGTH == 30
MIN_DESCRIPTION_LENGTH == 3
MAX_DESCRIPTION_LENGTH == 100
MAX_SPENDING_LIMIT == 1000000
TX_MIN_DESCRICAO == 3
TX_MAX_DESCRICAO == 100
TX_MAX_VALOR == 1000000
TEN_YEARS == 10

Valid == [isValid |-> TRUE, message |-> "Dados válidos"]
Invalid(message) == [isValid |-> FALSE, message |-> message]

\* CategoryController.validateCategoryData(data, isUpdate)
validateCategoryData(data, isUpdate) ==
    IF (~isUpdate \/ Has(data, "nome")) /\ ~isNotEmpty(data.nome)
    THEN Invalid("Nome da categoria é obrigatório")
    ELSE IF (~isUpdate \/ Has(data, "nome")) /\ Len(data.nome) < MIN_NAME_LENGTH
    THEN Invalid("Nome deve ter pelo menos 2 caracteres")
    ELSE IF (~isUpdate \/ Has(data, "nome")) /\ Len(data.nome) > MAX_NAME_LENGTH
    THEN Invalid("Nome deve ter no máximo 30 caracteres")
    ELSE IF (~isUpdate \/ Has(data, "cor")) /\ ~isNotEmpty(data.cor)
    THEN Invalid("Cor da categoria é obrigatória")
    ELSE IF (~isUpdate \/ Has(data, "cor")) /\ ~hexColorRegex(data.cor)
    THEN Invalid("Cor deve estar no formato hexadecimal (#RRGGBB)")
    ELSE IF (~isUpdate \/ Has(data, "descricao")) /\ ~isNotEmpty(data.descricao)
    THEN Invalid("Descrição da categoria é obrigatória")
    ELSE IF (~isUpdate \/ Has(data, "descricao"))
            /\ Len(data.descricao) < MIN_DESCRIPTION_LENGTH
    THEN Invalid("Descrição deve ter pelo menos 3 caracteres")
    ELSE IF (~isUpdate \/ Has(data, "descricao"))
            /\ Len(data.descricao) > MAX_DESCRIPTION_LENGTH
    THEN Invalid("Descrição deve ter no máximo 100 caracteres")
    ELSE IF Has(data, "limiteGasto") /\ data.limiteGasto < 0
    THEN Invalid("Limite de gasto não pode ser negativo")
    ELSE IF Has(data, "limiteGasto") /\ data.limiteGasto > MAX_SPENDING_LIMIT
    THEN Invalid("Limite de gasto deve ser menor que R$ 1.000.000,00")
    ELSE Valid

\* isValidDate(date): the pattern \d{4}-\d{2}-\d{2} and a Date that is not NaN
isValidDate(data) ==
    /\ data[1] \in 0..9999
    /\ data[2] \in 1..12
    /\ data[3] \in 1..DaysInMonth(data[1], data[2])

\* today.setHours(23, 59, 59, 999), to the minute
endOfToday(instant, offset) ==
    ((instant + offset) \div MinutesPerDay) * MinutesPerDay + (MinutesPerDay - 1) - offset

\* tenYearsAgo.setFullYear(tenYearsAgo.getFullYear() - 10)
tenYearsAgo(instant, offset) ==
    LET local == instant + offset
        civil == CivilFromDays(local \div MinutesPerDay)
    IN  DaysFromCivil(civil[1] - TEN_YEARS, civil[2], civil[3]) * MinutesPerDay
            + (local % MinutesPerDay) - offset

\* TransactionController.validateTransactionData(data, isUpdate)
validateTransactionData(data, isUpdate, instant, offset) ==
    IF (~isUpdate \/ Has(data, "descricao")) /\ ~isNotEmpty(data.descricao)
    THEN Invalid("Descrição é obrigatória")
    ELSE IF (~isUpdate \/ Has(data, "descricao")) /\ Len(data.descricao) < TX_MIN_DESCRICAO
    THEN Invalid("Descrição deve ter pelo menos 3 caracteres")
    ELSE IF (~isUpdate \/ Has(data, "descricao")) /\ Len(data.descricao) > TX_MAX_DESCRICAO
    THEN Invalid("Descrição deve ter no máximo 100 caracteres")
    ELSE IF (~isUpdate \/ Has(data, "valor")) /\ data.valor <= 0
    THEN Invalid("Valor deve ser maior que zero")
    ELSE IF (~isUpdate \/ Has(data, "valor")) /\ data.valor > TX_MAX_VALOR
    THEN Invalid("Valor deve ser menor que R$ 1.000.000,00")
    ELSE IF (~isUpdate \/ Has(data, "tipo")) /\ data.tipo \notin {"receita", "despesa"}
    THEN Invalid("Tipo deve ser \"receita\" ou \"despesa\"")
    ELSE IF (~isUpdate \/ Has(data, "categoriaId")) /\ data.categoriaId = 0
    THEN Invalid("Categoria é obrigatória")
    ELSE IF (~isUpdate \/ Has(data, "data")) /\ ~isValidDate(data.data)
    THEN Invalid("Data inválida")
    ELSE IF (~isUpdate \/ Has(data, "data"))
            /\ DateParse(data.data) > endOfToday(instant, offset)
    THEN Invalid("Data não pode ser futura")
    ELSE IF (~isUpdate \/ Has(data, "data"))
            /\ DateParse(data.data) < tenYearsAgo(instant, offset)
    THEN Invalid("Data não pode ser anterior a 10 anos")
    ELSE Valid

(***************************************************************************)
(* Services: the store calls.  A call that the store rejects throws; the   *)
(* caller's ok flag says which of the two happens.                         *)
(***************************************************************************)
\* CategoryService.getCategoriesByUser / TransactionService.getTransactionsByUser
getCategoriesByUser(cats) == ObjectValues(cats)
getTransactionsByUser(txs) == ObjectValues(txs)

\* TransactionService.calculateBalance, over the list it has read
RECURSIVE calculateBalanceLoop(_, _, _)
calculateBalanceLoop(list, receitas, despesas) ==
    IF list = <<>>
    THEN [receitas |-> receitas, despesas |-> despesas,
          saldo |-> NumSub(receitas, despesas)]
    ELSE IF Has(Head(list), "tipo") /\ Head(list).tipo = "receita"
    THEN calculateBalanceLoop(Tail(list), NumAdd(receitas, valorOf(Head(list))), despesas)
    ELSE calculateBalanceLoop(Tail(list), receitas, NumAdd(despesas, valorOf(Head(list))))

calculateBalance(txs) == calculateBalanceLoop(getTransactionsByUser(txs), Num(0), Num(0))

(***************************************************************************)
(* CategoryController                                                      *)
(***************************************************************************)
\* categories.some(cat => cat.nome.toLowerCase() === nome.toLowerCase() && cat.id !== excludeId)
\* "throw" when cat.nome is undefined on a record reached before a match
RECURSIVE someSameName(_, _, _)
someSameName(list, nome, excludeId) ==
    IF list = <<>> THEN "false"
    ELSE IF ~Has(Head(list), "nome") THEN "throw"
    ELSE IF /\ toLowerCase(Head(list).nome) = toLowerCase(nome)
            /\ (~Has(Head(list), "id") \/ Head(list).id # excludeId)
    THEN "true"
    ELSE someSameName(Tail(list), nome, excludeId)

\* CategoryController.checkCategoryNameExists; excludeId 0 when not given
checkCategoryNameExists(cats, readOk, nome, excludeId) ==
    IF ~readOk THEN FALSE
    ELSE someSameName(getCategoriesByUser(cats), nome, excludeId) = "true"

\* CategoryController.checkCategoryHasTransactions
checkCategoryHasTransactions(txs, readOk, categoryId) ==
    IF ~readOk THEN FALSE
    ELSE \E k \in DOMAIN txs :
            Has(txs[k], "categoriaId") /\ txs[k].categoriaId = categoryId

\* CategoryController.createCategory(userId, data)
CreateCategory(data, readOk, writeOk) ==
    LET validation == validateCategoryData(data, FALSE)
        key == nextCatKey
        stored == Spread(Spread([userId |-> userId], data), [id |-> key])
    IN  /\ UNCHANGED <<transactions, nextTxKey, now, tz, currentUser>>
        /\ IF ~validation.isValid
           THEN /\ result' = Response("createCategory", FALSE, validation.message, 0, NoData)
                /\ UNCHANGED <<categories, nextCatKey>>
           ELSE IF checkCategoryNameExists(categories, readOk, data.nome, 0)
           THEN /\ result' = Response("createCategory", FALSE, "Já existe uma categoria com este nome", 0, NoData)
                /\ UNCHANGED <<categories, nextCatKey>>
           ELSE IF ~writeOk
           THEN /\ result' = Response("createCategory", FALSE, "Erro ao criar categoria. Tente novamente.", 0, NoData)
                /\ nextCatKey' = key + 1
                /\ UNCHANGED categories
           ELSE /\ result' = Response("createCategory", TRUE, "Categoria criada com sucesso!", key, NoData)
                /\ nextCatKey' = key + 1
                /\ categories' = DbSet(categories, key, stored)

\* CategoryController.updateCategory(userId, data)
UpdateCategory(data, readOk, writeOk) ==
    LET validation == validateCategoryData(data, TRUE)
    IN  /\ UNCHANGED <<transactions, nextCatKey, nextTxKey, now, tz, currentUser>>
        /\ IF data.id = 0
           THEN /\ result' = Response("updateCategory", FALSE, "ID da categoria é obrigatório", 0, NoData)
                /\ UNCHANGED categories
           ELSE IF /\ (Has(data, "nome") \/ Has(data, "cor") \/ Has(data, "descricao"))
                   /\ ~validation.isValid
           THEN /\ result' = Response("updateCategory", FALSE, validation.message, 0, NoData)
                /\ UNCHANGED categories
           ELSE IF /\ Has(data, "nome") /\ data.nome # <<>>
                   /\ checkCategoryNameExists(categories, readOk, data.nome, data.id)
           THEN /\ result' = Response("updateCategory", FALSE, "Já existe uma categoria com este nome", 0, NoData)
                /\ UNCHANGED categories
           ELSE IF ~writeOk
           THEN /\ result' = Response("updateCategory", FALSE, "Erro ao atualizar categoria. Tente novamente.", 0, NoData)
                /\ UNCHANGED categories
           ELSE /\ result' = Response("updateCategory", TRUE, "Categoria atualizada com sucesso!", 0, NoData)
                /\ categories' = DbSet(categories, data.id, data)

\* deleteCategory removing the category before it looks for its transactions
DeleteCategoryRemovingFirst(categoryId, readOk, writeOk) ==
    /\ UNCHANGED <<transactions, nextCatKey, nextTxKey, now, tz, currentUser>>
    /\ IF categoryId = 0
       THEN /\ result' = Response("deleteCategory", FALSE, "ID da categoria é obrigatório", 0, NoData)
            /\ UNCHANGED categories
       ELSE IF ~writeOk
       THEN /\ result' = Response("deleteCategory", FALSE, "Erro ao deletar categoria. Tente novamente.", 0, NoData)
            /\ UNCHANGED categories
       ELSE IF checkCategoryHasTransactions(transactions, readOk, categoryId)
       THEN /\ result' = Response("deleteCategory", FALSE, "Não é possível deletar categoria com transações associadas. Delete as transações primeiro.", 0, NoData)
            /\ categories' = DbRemove(categories, categoryId)
       ELSE /\ result' = Response("deleteCategory", TRUE, "Categoria deletada com sucesso!", 0, NoData)
            /\ categories' = DbRemove(categories, categoryId)

\* CategoryController.deleteCategory(userId, categoryId)
DeleteCategory(categoryId, readOk, writeOk) ==
    /\ UNCHANGED <<transactions, nextCatKey, nextTxKey, now, tz, currentUser>>
    /\ IF categoryId = 0
       THEN /\ result' = Response("deleteCategory", FALSE, "ID da categoria é obrigatório", 0, NoData)
            /\ UNCHANGED categories
       ELSE IF checkCategoryHasTransactions(transactions, readOk, categoryId)
       THEN /\ result' = Response("deleteCategory", FALSE, "Não é possível deletar categoria com transações associadas. Delete as transações primeiro.", 0, NoData)
            /\ UNCHANGED categories
       ELSE IF ~writeOk
       THEN /\ result' = Response("deleteCategory", FALSE, "Erro ao deletar categoria. Tente novamente.", 0, NoData)
            /\ UNCHANGED categories
       ELSE /\ result' = Response("deleteCategory", TRUE, "Categoria deletada com sucesso!", 0, NoData)
            /\ categories' = DbRemove(categories, categoryId)

(***************************************************************************)
(* TransactionController                                                   *)
(***************************************************************************)
\* TransactionController.validateCategoryExists; the variant takes a failed
\* read for a positive answer
validateCategoryExistsFailOpen(cats, readOk, categoryId) ==
    IF ~readOk THEN TRUE
    ELSE \E k \in DOMAIN cats : Has(cats[k], "id") /\ cats[k].id = categoryId

validateCategoryExists(cats, readOk, categoryId) ==
    IF ~readOk THEN FALSE
    ELSE \E k \in DOMAIN cats : Has(cats[k], "id") /\ cats[k].id = categoryId

\* TransactionController.createTransaction(userId, data)
CreateTransaction(data, readOk, writeOk) ==
    LET validation == validateTransactionData(data, FALSE, now, tz)
        key == nextTxKey
        recorrente == IF Has(data, "recorrente") THEN data.recorrente ELSE FALSE
        stored == Spread(Spread(Spread([userId |-> userId], data),
                                [recorrente |-> recorrente]), [id |-> key])
    IN  /\ UNCHANGED <<categories, nextCatKey, now, tz, currentUser>>
        /\ IF ~validation.isValid
           THEN /\ result' = Response("createTransaction", FALSE, validation.message, 0, NoData)
                /\ UNCHANGED <<transactions, nextTxKey>>
           ELSE IF ~validateCategoryExists(categories, readOk, data.categoriaId)
           THEN /\ result' = Response("createTransaction", FALSE, "Categoria não encontrada", 0, NoData)
                /\ UNCHANGED <<transactions, nextTxKey>>
           ELSE IF ~writeOk
           THEN /\ result' = Response("createTransaction", FALSE, "Erro ao criar transação. Tente novamente.", 0, NoData)
                /\ nextTxKey' = key + 1
                /\ UNCHANGED transactions
           ELSE /\ result' = Response("createTransaction", TRUE, "Transação criada com sucesso!", key, NoData)
                /\ nextTxKey' = key + 1
                /\ transactions' = DbSet(transactions, key, stored)

\* TransactionController.updateTransaction(userId, data)
UpdateTransaction(data, readOk, writeOk) ==
    LET validation == validateTransactionData(data, TRUE, now, tz)
    IN  /\ UNCHANGED <<categories, nextCatKey, nextTxKey, now, tz, currentUser>>
        /\ IF data.id = 0
           THEN /\ result' = Response("updateTransaction", FALSE, "ID da transação é obrigatório", 0, NoData)
                /\ UNCHANGED transactions
           ELSE IF /\ (Has(data, "descricao") \/ Has(data, "valor") \/ Has(data, "tipo")
                        \/ Has(data, "categoriaId") \/ Has(data, "data"))
                   /\ ~validation.isValid
           THEN /\ result' = Response("updateTransaction", FALSE, validation.message, 0, NoData)
                /\ UNCHANGED transactions
           ELSE IF /\ Has(data, "categoriaId") /\ data.categoriaId # 0
                   /\ ~validateCategoryExists(categories, readOk, data.categoriaId)
           THEN /\ result' = Response("updateTransaction", FALSE, "Categoria não encontrada", 0, NoData)
                /\ UNCHANGED transactions
           ELSE IF ~writeOk
           THEN /\ result' = Response("updateTransaction", FALSE, "Erro ao atualizar transação. Tente novamente.", 0, NoData)
                /\ UNCHANGED transactions
           ELSE /\ result' = Response("updateTransaction", TRUE, "Transação atualizada com sucesso!", 0, NoData)
                /\ transactions' = DbSet(transactions, data.id, data)

\* TransactionController.deleteTransaction(userId, transactionId)
DeleteTransaction(transactionId, writeOk) ==
    /\ UNCHANGED <<categories, nextCatKey, nextTxKey, now, tz, currentUser>>
    /\ IF transactionId = 0
       THEN /\ result' = Response("deleteTransaction", FALSE, "ID da transação é obrigatório", 0, NoData)
            /\ UNCHANGED transactions
       ELSE IF ~writeOk
       THEN /\ result' = Response("deleteTransaction", FALSE, "Erro ao deletar transação. Tente novamente.", 0, NoData)
            /\ UNCHANGED transactions
       ELSE /\ result' = Response("deleteTransaction", TRUE, "Transação deletada com sucesso!", 0, NoData)
            /\ transactions' = DbRemove(transactions, transactionId)

\* TransactionController.getFinancialSummary(userId), as a value
getFinancialSummary(txs, readOk) ==
    LET balanceData == calculateBalance(txs)
        summary ==
            [saldo |-> balanceData.saldo,
             totalReceitas |-> balanceData.receitas,
             totalDespesas |-> balanceData.despesas,
             transacoesCount |->
                IF NumGt(balanceData.receitas, Num(0)) \/ NumGt(balanceData.despesas, Num(0))
                THEN 1 ELSE 0]
    IN  IF ~readOk
        THEN [success |-> FALSE, message |-> "Erro ao calcular resumo financeiro", summary |-> <<>>]
        ELSE [success |-> TRUE, message |-> "Resumo calculado com sucesso!", summary |-> <<summary>>]

\* a call of getFinancialSummary
GetFinancialSummary(readOk) ==
    LET summaryResult == getFinancialSummary(transactions, readOk)
    IN  /\ UNCHANGED <<categories, transactions, nextCatKey, nextTxKey, now, tz, currentUser>>
        /\ result' = Response("getFinancialSummary", summaryResult.success,
                              summaryResult.message, 0, summaryResult.summary)

\* TransactionController.getUserTransactions(userId), as a value
getUserTransactions(txs, readOk) ==
    IF ~readOk
    THEN [success |-> FALSE, message |-> "Erro ao carregar transações", transactions |-> <<>>]
    ELSE [success |-> TRUE, message |-> "Transações carregadas com sucesso!", transactions |-> getTransactionsByUser(txs)]

\* CategoryController.getUserCategories(userId), as a value
getUserCategories(cats, readOk) ==
    IF ~readOk
    THEN [success |-> FALSE, message |-> "Erro ao carregar categorias", categories |-> <<>>]
    ELSE [success |-> TRUE, message |-> "Categorias carregadas com sucesso!", categories |-> getCategoriesByUser(cats)]

\* the four filters of getFilteredTransactions, applied in the code's order
filterStartDate(list, filters) ==
    IF Has(filters, "startDate")
    THEN SelectSeq(list, LAMBDA t :
            Has(t, "data") /\ DateParse(t.data) >= DateParse(filters.startDate))
    ELSE list

\* the end date taken as an exclusive bound
filterEndDateExclusive(list, filters) ==
    IF Has(filters, "endDate")
    THEN SelectSeq(list, LAMBDA t :
            Has(t, "data") /\ DateParse(t.data) < DateParse(filters.endDate))
    ELSE list

filterEndDate(list, filters) ==
    IF Has(filters, "endDate")
    THEN SelectSeq(list, LAMBDA t :
            Has(t, "data") /\ DateParse(t.data) <= DateParse(filters.endDate))
    ELSE list

filterCategoryId(list, filters) ==
    IF Has(filters, "categoryId") /\ filters.categoryId # 0
    THEN SelectSeq(list, LAMBDA t :
            Has(t, "categoriaId") /\ t.categoriaId = filters.categoryId)
    ELSE list

filterTipo(list, filters) ==
    IF Has(filters, "tipo")
    THEN SelectSeq(list, LAMBDA t : Has(t, "tipo") /\ t.tipo = filters.tipo)
    ELSE list

\* TransactionController.getFilteredTransactions(userId, filters)
GetFilteredTransactions(filters, readOk) ==
    LET list == getTransactionsByUser(transactions)
        filtered ==
            filterTipo(filterCategoryId(filterEndDate(filterStartDate(list, filters),
                                                      filters), filters), filters)
    IN  /\ UNCHANGED <<categories, transactions, nextCatKey, nextTxKey, now, tz, currentUser>>
        /\ IF ~readOk
           THEN result' = Response("getFilteredTransactions", FALSE, "Erro ao filtrar transações", 0, NoData)
           ELSE result' = Response("getFilteredTransactions", TRUE, "Transações filtradas com sucesso!", 0, filtered)

(***************************************************************************)
(* Inputs shared by the specifications                                     *)
(***************************************************************************)
BRT == 0 - 3 * 60   \* America/Sao_Paulo, UTC-03:00
UTC == 0 * 60

sLazer == <<"L","a","z","e","r">>
sLAZER == <<"L","A","Z","E","R">>
sCasa == <<"C","a","s","a">>
sWhite == <<"#","f","f","f">>
sMercado == <<"M","e","r","c","a","d","o">>
sBlank == <<" "," ">>

Jan15 == <<2024, 1, 15>>
Feb01 == <<2024, 2, 1>>

CategoryData(nome, cor) == [nome |-> nome, cor |-> cor, descricao |-> <<"F","u","n">>]

TransactionData(descricao, valor, tipo, categoriaId, data) ==
    [descricao |-> descricao, valor |-> valor, tipo |-> tipo,
     categoriaId |-> categoriaId, data |-> data, formaPagamento |-> "pix"]

\* the flows that can be under way at once: 1 the call made by the
\* registration (or a first tab), 2 the call made by the dashboard (or a second tab)
Callers == {1, 2}
Idle == [op |-> "idle", pc |-> "idle", arg |-> <<>>]

InitStore ==
    /\ categories = <<>>
    /\ transactions = <<>>
    /\ nextCatKey = 1
    /\ nextTxKey = 1
    /\ now = DateParse(<<2024, 3, 2>>) + 12 * 60
    /\ result = Response("init", TRUE, "", 0, NoData)
    /\ pending = [c \in Callers |-> Idle]

(***************************************************************************)
(* Spec: the registry and the ledger's referential checks, every store     *)
(* call free to fail                                                       *)
(***************************************************************************)
MaxCatKey == 2      \* push() keys handed out under categories/{userId}
MaxTxKey == 2       \* push() keys handed out under transactions/{userId}

CategoryInputs ==
    {CategoryData(sLazer, sWhite), CategoryData(sLAZER, sWhite),
     CategoryData(sCasa, sWhite), CategoryData(sBlank, sWhite),
     CategoryData(sCasa, <<"r","e","d">>)}

CategoryPatches ==
    {[id |-> k, nome |-> sLAZER] : k \in 0..MaxCatKey}
        \cup {[id |-> 1, limiteGasto |-> 0 - 1]}

TransactionInputs ==
    {TransactionData(sMercado, 5, "receita", c, Jan15) : c \in 0..(MaxCatKey + 1)}
        \cup {TransactionData(sBlank, 5, "receita", MaxCatKey + 1, Jan15),
              TransactionData(sMercado, 5, "receita", 1, <<2024, 3, 9>>)}

TransactionPatches ==
    {[id |-> k, valor |-> 7] : k \in 0..MaxTxKey}
        \cup {[id |-> 1, categoriaId |-> MaxCatKey + 1]}

\* a session of the signed-in user, in Brasília time
Init == InitStore /\ tz = BRT /\ currentUser = userId

Next ==
    \/ \E data \in CategoryInputs, readOk \in BOOLEAN, writeOk \in BOOLEAN :
        nextCatKey <= MaxCatKey /\ CreateCategory(data, readOk, writeOk)
        /\ UNCHANGED pending
    \/ \E data \in CategoryPatches, readOk \in BOOLEAN, writeOk \in BOOLEAN :
        UpdateCategory(data, readOk, writeOk)
        /\ UNCHANGED pending
    \/ \E categoryId \in 0..MaxCatKey, readOk \in BOOLEAN, writeOk \in BOOLEAN :
        DeleteCategory(categoryId, readOk, writeOk)
        /\ UNCHANGED pending
    \/ \E data \in TransactionInputs, readOk \in BOOLEAN, writeOk \in BOOLEAN :
        nextTxKey <= MaxTxKey /\ CreateTransaction(data, readOk, writeOk)
        /\ UNCHANGED pending
    \/ \E data \in TransactionPatches, readOk \in BOOLEAN, writeOk \in BOOLEAN :
        UpdateTransaction(data, readOk, writeOk)
        /\ UNCHANGED pending
    \/ \E transactionId \in 0..MaxTxKey, writeOk \in BOOLEAN :
        DeleteTransaction(transactionId, writeOk)
        /\ UNCHANGED pending

Spec == Init /\ [][Next]_vars

\* a stored transaction of the user references the category
IsReferenced(categoryId) ==
    \E k \in DOMAIN transactions :
        Has(transactions[k], "categoriaId") /\ transactions[k].categoriaId = categoryId

\* the id of some category in the user's category list
IsCategoryId(categoryId) ==
    \E k \in DOMAIN categories :
        Has(categories[k], "id") /\ categories[k].id = categoryId

\* the user owns a category of that name, letter case ignored
OwnsName(nome) ==
    \E k \in DOMAIN categories :
        Has(categories[k], "nome") /\ toLowerCase(categories[k].nome) = toLowerCase(nome)

\* C1: deleteCategory of a category that a stored transaction of the user
\* references ends with the category-in-use result and removes nothing, also
\* when the transaction list read of the guard fails.
C1_DeleteBlockedWhileReferenced ==
    [][result'.op = "deleteCategory" =>
       \A categoryId \in 1..MaxCatKey, readOk \in BOOLEAN, writeOk \in BOOLEAN :
        (DeleteCategory(categoryId, readOk, writeOk) /\ IsReferenced(categoryId))
            => (result'.message = "Não é possível deletar categoria com transações associadas. Delete as transações primeiro." /\ categories' = categories)]_vars

\* C2 as stated: createTransaction with a categoriaId that is no category id of
\* the user ends with the category-not-found result and writes no transaction.
C2_AlwaysCategoryNotFound ==
    [][result'.op = "createTransaction" =>
       \A data \in TransactionInputs, readOk \in BOOLEAN, writeOk \in BOOLEAN :
        (CreateTransaction(data, readOk, writeOk) /\ ~IsCategoryId(data.categoriaId))
            => (result'.message = "Categoria não encontrada" /\ transactions' = transactions)]_vars

\* C2 amended: createTransaction with a categoriaId that is no category id of
\* the user fails and writes no transaction; its result is category-not-found
\* when the data passes validation, and the validation message otherwise.
C2_UnknownCategoryRejected ==
    [][result'.op = "createTransaction" =>
       \A data \in TransactionInputs, readOk \in BOOLEAN, writeOk \in BOOLEAN :
        (CreateTransaction(data, readOk, writeOk) /\ ~IsCategoryId(data.categoriaId))
            => /\ ~result'.success
               /\ transactions' = transactions
               /\ result'.message =
                    IF validateTransactionData(data, FALSE, now, tz).isValid
                    THEN "Categoria não encontrada"
                    ELSE validateTransactionData(data, FALSE, now, tz).message]_vars

\* C2 witness: a createTransaction was refused as category-not-found while the
\* store holds a category, so the lookup ran over a non-empty list.
C2_Witness ==
    /\ result.op = "createTransaction"
    /\ result.message = "Categoria não encontrada"
    /\ DOMAIN categories # {}

\* C3: createCategory with valid data whose nome equals, letter case ignored,
\* the nome of a category the user owns ends with the duplicate-name result and
\* creates nothing, also when the category list read of the check fails.
C3_DuplicateNameRejected ==
    [][result'.op = "createCategory" =>
       \A data \in CategoryInputs, readOk \in BOOLEAN, writeOk \in BOOLEAN :
        (/\ CreateCategory(data, readOk, writeOk)
         /\ validateCategoryData(data, FALSE).isValid
         /\ OwnsName(data.nome))
            => (result'.message = "Já existe uma categoria com este nome" /\ categories' = categories)]_vars

(***************************************************************************)
(* SpecBoot: bootstrap of the default categories                           *)
(***************************************************************************)
\* the catalog of createDefaultCategories: nome, cor, descricao
defaultCategories ==
    <<
      [nome |-> <<"S","a","l","á","r","i","o">>,
       cor |-> <<"#","2","2","c","5","5","e">>,
       descricao |->
         <<"S","a","l","á","r","i","o"," ","e"," ","r","e","n","d","i","m","e","n","t","o","s"," ","d","o"," ","t","r","a","b","a","l","h","o">>],
      [nome |-> <<"F","r","e","e","l","a","n","c","e">>,
       cor |-> <<"#","3","b","8","2","f","6">>,
       descricao |->
         <<"T","r","a","b","a","l","h","o","s"," ","f","r","e","e","l","a","n","c","e"," ","e"," ","p","r","o","j","e","t","o","s"," ","e","x","t","r","a","s">>],
      [nome |-> <<"I","n","v","e","s","t","i","m","e","n","t","o","s">>,
       cor |-> <<"#","1","0","b","9","8","1">>,
       descricao |->
         <<"R","e","n","d","i","m","e","n","t","o","s"," ","d","e"," ","i","n","v","e","s","t","i","m","e","n","t","o","s">>],
      [nome |-> <<"V","e","n","d","a","s">>,
       cor |-> <<"#","0","6","b","6","d","4">>,
       descricao |->
         <<"V","e","n","d","a","s"," ","d","e"," ","p","r","o","d","u","t","o","s"," ","o","u"," ","s","e","r","v","i","ç","o","s">>],
      [nome |-> <<"O","u","t","r","o","s"," ","R","e","n","d","i","m","e","n","t","o","s">>,
       cor |-> <<"#","8","b","5","c","f","6">>,
       descricao |->
         <<"O","u","t","r","a","s"," ","f","o","n","t","e","s"," ","d","e"," ","r","e","n","d","a">>],
      [nome |-> <<"A","l","i","m","e","n","t","a","ç","ã","o">>,
       cor |-> <<"#","f","5","9","e","0","b">>,
       descricao |->
         <<"S","u","p","e","r","m","e","r","c","a","d","o",","," ","r","e","s","t","a","u","r","a","n","t","e","s"," ","e"," ","d","e","l","i","v","e","r","y">>],
      [nome |-> <<"T","r","a","n","s","p","o","r","t","e">>,
       cor |-> <<"#","e","f","4","4","4","4">>,
       descricao |->
         <<"G","a","s","o","l","i","n","a",","," ","t","r","a","n","s","p","o","r","t","e"," ","p","ú","b","l","i","c","o"," ","e"," ","U","b","e","r">>],
      [nome |-> <<"M","o","r","a","d","i","a">>,
       cor |-> <<"#","6","b","7","2","8","0">>,
       descricao |->
         <<"A","l","u","g","u","e","l",","," ","f","i","n","a","n","c","i","a","m","e","n","t","o"," ","e"," ","c","o","n","t","a","s"," ","d","a"," ","c","a","s","a">>],
      [nome |-> <<"S","a","ú","d","e">>,
       cor |-> <<"#","e","c","4","8","9","9">>,
       descricao |->
         <<"M","e","d","i","c","a","m","e","n","t","o","s",","," ","c","o","n","s","u","l","t","a","s"," ","e"," ","p","l","a","n","o","s"," ","d","e"," ","s","a","ú","d","e">>],
      [nome |-> <<"E","d","u","c","a","ç","ã","o">>,
       cor |-> <<"#","8","b","5","c","f","6">>,
       descricao |->
         <<"C","u","r","s","o","s",","," ","l","i","v","r","o","s"," ","e"," ","m","a","t","e","r","i","a","l"," ","e","s","c","o","l","a","r">>],
      [nome |-> <<"L","a","z","e","r">>,
       cor |-> <<"#","f","9","7","3","1","6">>,
       descricao |->
         <<"C","i","n","e","m","a",","," ","v","i","a","g","e","n","s"," ","e"," ","e","n","t","r","e","t","e","n","i","m","e","n","t","o">>],
      [nome |-> <<"R","o","u","p","a","s">>,
       cor |-> <<"#","8","4","c","c","1","6">>,
       descricao |->
         <<"V","e","s","t","u","á","r","i","o"," ","e"," ","a","c","e","s","s","ó","r","i","o","s">>],
      [nome |-> <<"T","e","c","n","o","l","o","g","i","a">>,
       cor |-> <<"#","0","e","a","5","e","9">>,
       descricao |->
         <<"E","l","e","t","r","ô","n","i","c","o","s",","," ","a","p","p","s"," ","e"," ","s","e","r","v","i","ç","o","s"," ","d","i","g","i","t","a","i","s">>],
      [nome |-> <<"O","u","t","r","o","s"," ","G","a","s","t","o","s">>,
       cor |-> <<"#","6","4","7","4","8","b">>,
       descricao |->
         <<"D","e","s","p","e","s","a","s"," ","d","i","v","e","r","s","a","s">>]
    >>

MsgCatDefaultsCreatedN(createdCount) ==
    ToString(createdCount) \o " categorias padrão criadas com sucesso!"

\* existingCategories.length > 0
hasCategoriesMoreThanOne(existingCategories) == Len(existingCategories) > 1
hasCategories(existingCategories) == Len(existingCategories) > 0

\* the for loop of createDefaultCategories from catalog entry i on: every entry
\* takes a push() key, a rejected set() is logged and the loop goes on
RECURSIVE createDefaultsFrom(_, _, _, _, _)
createDefaultsFrom(i, cats, key, createdCount, writeOks) ==
    IF i > Len(defaultCategories)
    THEN [categories |-> cats, nextKey |-> key, createdCount |-> createdCount]
    ELSE IF writeOks[i]
    THEN createDefaultsFrom(i + 1,
            DbSet(cats, key, Spread(Spread([userId |-> userId], defaultCategories[i]),
                                    [id |-> key])),
            key + 1, createdCount + 1, writeOks)
    ELSE createDefaultsFrom(i + 1, cats, key + 1, createdCount, writeOks)

\* the same loop leaving at the first rejected write
RECURSIVE createDefaultsUntilFailure(_, _, _, _, _)
createDefaultsUntilFailure(i, cats, key, createdCount, writeOks) ==
    IF i > Len(defaultCategories)
    THEN [categories |-> cats, nextKey |-> key, createdCount |-> createdCount]
    ELSE IF writeOks[i]
    THEN createDefaultsUntilFailure(i + 1,
            DbSet(cats, key, Spread(Spread([userId |-> userId], defaultCategories[i]),
                                    [id |-> key])),
            key + 1, createdCount + 1, writeOks)
    ELSE [categories |-> cats, nextKey |-> key + 1, createdCount |-> createdCount]

createDefaultsLoopStopping(cats, key, writeOks) ==
    createDefaultsUntilFailure(1, cats, key, 0, writeOks)
\* the loop looking at the store again before it writes
createDefaultsLoopIfEmpty(cats, key, writeOks) ==
    IF DOMAIN cats # {}
    THEN [categories |-> cats, nextKey |-> key, createdCount |-> 0]
    ELSE createDefaultsFrom(1, cats, key, 0, writeOks)
createDefaultsLoop(cats, key, writeOks) == createDefaultsFrom(1, cats, key, 0, writeOks)

\* CategoryController.createDefaultCategories(userId)
CreateDefaultCategories(readOk, writeOks) ==
    LET existingCategories == getCategoriesByUser(categories)
        done == createDefaultsLoop(categories, nextCatKey, writeOks)
    IN  /\ UNCHANGED <<transactions, nextTxKey, now, tz, currentUser>>
        /\ IF ~readOk
           THEN /\ result' = Response("createDefaultCategories", FALSE, "Erro ao criar categorias padrão. Tente novamente.", 0, NoData)
                /\ UNCHANGED <<categories, nextCatKey>>
           ELSE IF hasCategories(existingCategories)
           THEN /\ result' = Response("createDefaultCategories", TRUE, "Usuário já possui categorias", 0, NoData)
                /\ UNCHANGED <<categories, nextCatKey>>
           ELSE /\ categories' = done.categories
                /\ nextCatKey' = done.nextKey
                /\ result' =
                    IF done.createdCount > 0
                    THEN Response("createDefaultCategories", TRUE,
                                  MsgCatDefaultsCreatedN(done.createdCount), 0, NoData)
                    ELSE Response("createDefaultCategories", FALSE, "Erro ao criar categorias padrão", 0, NoData)

MaxBootRuns == 1    \* runs of the catalog loop, each taking 14 push() keys
MaxBootDelete == 2  \* keys that deleteCategory is called with

AllWritesOk == [i \in 1..Len(defaultCategories) |-> TRUE]

NextBoot ==
    \* the outcomes of the 14 writes matter only to a run that reaches the loop
    \/ \E readOk \in BOOLEAN,
          writeOks \in (IF DOMAIN categories = {}
                        THEN [1..Len(defaultCategories) -> BOOLEAN] ELSE {AllWritesOk}) :
        /\ nextCatKey <= (MaxBootRuns - 1) * Len(defaultCategories) + 1
                \/ DOMAIN categories # {}
        /\ CreateDefaultCategories(readOk, writeOks)
        /\ UNCHANGED pending
    \/ \E categoryId \in 1..MaxBootDelete, readOk \in BOOLEAN, writeOk \in BOOLEAN :
        DeleteCategory(categoryId, readOk, writeOk)
        /\ UNCHANGED pending

SpecBoot == Init /\ [][NextBoot]_vars

(***************************************************************************)
(* Claims on the bootstrap (SpecBoot)                                      *)
(***************************************************************************)

\* C4: createDefaultCategories called while the user already has one or more
\* categories writes nothing (the category set and the key counter stay as they
\* are), and answers success "Usuário já possui categorias" whenever the list
\* of categories could be read; so a second run after a first run that created
\* categories leaves the set unchanged and adds no duplicate.
C4_BootstrapIdempotent ==
    [][(result'.op = "createDefaultCategories" /\ DOMAIN categories # {}) =>
        /\ categories' = categories
        /\ nextCatKey' = nextCatKey
        /\ \A readOk \in BOOLEAN :
            (readOk /\ CreateDefaultCategories(readOk, AllWritesOk)) =>
                /\ result'.success
                /\ result'.message = "Usuário já possui categorias"]_vars

\* a second run has answered "already has categories" over a full catalog
C4_Witness ==
    /\ result.op = "createDefaultCategories"
    /\ result.message = "Usuário já possui categorias"
    /\ Cardinality(DOMAIN categories) = Len(defaultCategories)
    /\ \A i, j \in DOMAIN categories :
        i # j => toLowerCase(categories[i].nome) # toLowerCase(categories[j].nome)

\* C5: for a user with no category, a run whose list read succeeds attempts
\* all 14 catalog entries whatever writes fail (14 push keys are taken, and the
\* entries written are catalog entries at their own keys), reports success
\* exactly when one or more writes were accepted, with the number created in
\* the message, and leaves exactly 14 categories when every write is accepted.
C5_BootstrapAttemptsAll ==
    [][(/\ result'.op = "createDefaultCategories"
        /\ DOMAIN categories = {}
        /\ result'.message # "Erro ao criar categorias padrão. Tente novamente.") =>
        /\ nextCatKey' = nextCatKey + 14
        /\ DOMAIN categories' \subseteq nextCatKey..(nextCatKey + 13)
        /\ \A k \in DOMAIN categories' :
            /\ categories'[k].nome = defaultCategories[k - nextCatKey + 1].nome
            /\ categories'[k].id = k
            /\ categories'[k].userId = userId
        /\ result'.success <=> (DOMAIN categories' # {})
        /\ result'.success =>
            result'.message = MsgCatDefaultsCreatedN(Cardinality(DOMAIN categories'))
        /\ ~result'.success => result'.message = "Erro ao criar categorias padrão"
        /\ CreateDefaultCategories(TRUE, AllWritesOk) =>
            /\ Cardinality(DOMAIN categories') = 14
            /\ result'.success]_vars

\* a run went past a rejected write: entry 1 is missing, entry 14 was written
C5_Witness ==
    /\ result.op = "createDefaultCategories"
    /\ result.success
    /\ nextCatKey = 15
    /\ 1 \notin DOMAIN categories
    /\ 14 \in DOMAIN categories
    /\ Cardinality(DOMAIN categories) = 13

(***************************************************************************)
(* SpecLedger: the ledger with its summary and its filter                  *)
(***************************************************************************)
MaxLedgerCat == 2   \* push() keys handed out under categories/{userId}
MaxLedgerTx == 2    \* push() keys handed out under transactions/{userId}

LedgerCategoryInputs == {CategoryData(sLazer, sWhite), CategoryData(sCasa, sWhite)}

LedgerTransactionInputs ==
    {TransactionData(sMercado, 5, tipo, c, d) :
        tipo \in {"receita", "despesa"}, c \in 1..MaxLedgerCat, d \in {Jan15, Feb01}}

LedgerPatches ==
    {[id |-> k, valor |-> 7] : k \in 1..MaxLedgerTx}
        \cup {[id |-> k, categoriaId |-> 1] : k \in 1..MaxLedgerTx}

\* the filters argument: each of its four optional fields present or absent
FiltersOf(fields, startDate, endDate, categoryId, tipo) ==
    [f \in fields |->
        CASE f = "startDate" -> startDate
          [] f = "endDate" -> endDate
          [] f = "categoryId" -> categoryId
          [] f = "tipo" -> tipo]

FilterInputs ==
    {FiltersOf(fields, startDate, Jan15, 1, "despesa") :
        fields \in SUBSET {"startDate", "endDate", "categoryId", "tipo"},
        startDate \in {Jan15, Feb01}}

NextLedger ==
    \/ \E data \in LedgerCategoryInputs :
        nextCatKey <= MaxLedgerCat /\ CreateCategory(data, TRUE, TRUE)
        /\ UNCHANGED pending
    \/ \E data \in LedgerTransactionInputs, readOk \in BOOLEAN, writeOk \in BOOLEAN :
        nextTxKey <= MaxLedgerTx /\ CreateTransaction(data, readOk, writeOk)
        /\ UNCHANGED pending
    \/ \E data \in LedgerPatches, readOk \in BOOLEAN, writeOk \in BOOLEAN :
        UpdateTransaction(data, readOk, writeOk)
        /\ UNCHANGED pending
    \/ \E transactionId \in 1..MaxLedgerTx, writeOk \in BOOLEAN :
        DeleteTransaction(transactionId, writeOk)
        /\ UNCHANGED pending
    \/ \E readOk \in BOOLEAN : GetFinancialSummary(readOk)
        /\ UNCHANGED pending
    \/ \E filters \in FilterInputs, readOk \in BOOLEAN :
        GetFilteredTransactions(filters, readOk)
        /\ UNCHANGED pending

SpecLedger == Init /\ [][NextLedger]_vars

(***************************************************************************)
(* Claims on the ledger (SpecLedger)                                       *)
(***************************************************************************)
\* the sum of valor over the stored transactions of one kind
RECURSIVE SumOfKind(_, _)
SumOfKind(keys, kind) ==
    IF keys = {} THEN Num(0)
    ELSE LET k == CHOOSE x \in keys : TRUE
             t == transactions[k]
         IN  IF Has(t, "tipo") /\ t.tipo = kind
             THEN NumAdd(SumOfKind(keys \ {k}, kind), valorOf(t))
             ELSE SumOfKind(keys \ {k}, kind)

\* C6: over every transaction set reached through create, update and delete,
\* the summary's totalReceitas is the sum of valor over the transactions of
\* tipo receita, totalDespesas the sum over those of tipo despesa, saldo their
\* difference, both totals are >= 0, and all three are 0 for the empty set.
C6_BalanceIsSumByKind ==
    (result.op = "getFinancialSummary" /\ result.success) =>
        LET summary == result.data[1]
        IN  /\ summary.totalReceitas = SumOfKind(DOMAIN transactions, "receita")
            /\ summary.totalDespesas = SumOfKind(DOMAIN transactions, "despesa")
            /\ summary.saldo = NumSub(summary.totalReceitas, summary.totalDespesas)
            /\ NumGe(summary.totalReceitas, Num(0))
            /\ NumGe(summary.totalDespesas, Num(0))
            /\ DOMAIN transactions = {} =>
                /\ summary.saldo = Num(0)
                /\ summary.totalReceitas = Num(0)
                /\ summary.totalDespesas = Num(0)

\* calendar order of two dates, year then month then day
DateLeq(a, b) ==
    \/ a[1] < b[1]
    \/ a[1] = b[1] /\ a[2] < b[2]
    \/ a[1] = b[1] /\ a[2] = b[2] /\ a[3] <= b[3]

\* t satisfies every predicate that filters supplies
Satisfies(t, filters) ==
    /\ Has(filters, "startDate") => (Has(t, "data") /\ DateLeq(filters.startDate, t.data))
    /\ Has(filters, "endDate") => (Has(t, "data") /\ DateLeq(t.data, filters.endDate))
    /\ Has(filters, "categoryId") =>
        (Has(t, "categoriaId") /\ t.categoriaId = filters.categoryId)
    /\ Has(filters, "tipo") => (Has(t, "tipo") /\ t.tipo = filters.tipo)

\* C10: a getFilteredTransactions whose read succeeds returns, in store order,
\* exactly the user's transactions that satisfy every supplied predicate (date
\* >= startDate, date <= endDate, categoriaId equal, tipo equal), all of them
\* when none is supplied, and leaves the store as it is.
C10_FilterIsConjunction ==
    [][result'.op = "getFilteredTransactions" =>
        \A filters \in FilterInputs :
            GetFilteredTransactions(filters, TRUE) =>
                /\ result'.success
                /\ result'.data =
                    SelectSeq(ObjectValues(transactions), LAMBDA t : Satisfies(t, filters))
                /\ (DOMAIN filters = {} => result'.data = ObjectValues(transactions))
                /\ transactions' = transactions]_vars

\* the filter answered with the empty sequence over a January-only ledger of
\* expenses of category 1: of FilterInputs only startDate 2024-02-01 rejects them
C10_Witness ==
    /\ result.op = "getFilteredTransactions"
    /\ result.success
    /\ result.data = <<>>
    /\ DOMAIN transactions # {}
    /\ \A k \in DOMAIN transactions :
        /\ DOMAIN transactions[k] = DOMAIN TransactionData(sMercado, 5, "despesa", 1, Jan15)
                                        \cup {"id", "userId", "recorrente"}
        /\ transactions[k].data = Jan15
        /\ transactions[k].categoriaId = 1
        /\ transactions[k].tipo = "despesa"

(***************************************************************************)
(* DashboardController                                                     *)
(***************************************************************************)
MAX_RECENT_TRANSACTIONS == 10

\* new Date(transaction.data).getTime(), of a record whose data field is present
dateTime(t) == DateParse(t.data)

\* the comparator of sortTransactionsByDate says that a goes before b:
\* new Date(b.data).getTime() - new Date(a.data).getTime() < 0; with a data
\* field missing the difference is NaN, which sort takes as 0
newer(a, b) == Has(a, "data") /\ Has(b, "data") /\ dateTime(a) > dateTime(b)

\* Array.prototype.sort is stable: t goes behind the last entry it does not
\* sort before
insertNewestFirst(sorted, t) ==
    LET stops == {j \in 1..Len(sorted) : ~newer(t, sorted[j])}
        n == IF stops = {} THEN 0 ELSE CHOOSE j \in stops : \A k \in stops : k <= j
    IN  SubSeq(sorted, 1, n) \o <<t>> \o SubSeq(sorted, n + 1, Len(sorted))

\* DashboardController.sortTransactionsByDate: most recent first
RECURSIVE sortTransactionsByDate(_)
sortTransactionsByDate(list) ==
    IF list = <<>> THEN <<>>
    ELSE insertNewestFirst(sortTransactionsByDate(SubSeq(list, 1, Len(list) - 1)),
                           list[Len(list)])

\* list.slice(0, n)
slice(list, n) == SubSeq(list, 1, IF Len(list) < n THEN Len(list) ELSE n)

\* loadDashboardData looking at its three results in another order
loadDashboardDataCategoriesFirst(txs, cats, summaryOk, transactionsOk, categoriesOk) ==
    LET summaryResult == getFinancialSummary(txs, summaryOk)
        transactionsResult == getUserTransactions(txs, transactionsOk)
        categoriesResult == getUserCategories(cats, categoriesOk)
        failure(message) ==
            [success |-> FALSE, message |-> message, summary |-> <<>>,
             recentTransactions |-> <<>>, categories |-> <<>>]
    IN  IF ~categoriesResult.success THEN failure(categoriesResult.message)
        ELSE IF ~transactionsResult.success THEN failure(transactionsResult.message)
        ELSE IF ~summaryResult.success THEN failure(summaryResult.message)
        ELSE [success |-> TRUE, message |-> "Dados do dashboard carregados com sucesso!",
              summary |-> summaryResult.summary,
              recentTransactions |->
                slice(sortTransactionsByDate(transactionsResult.transactions),
                      MAX_RECENT_TRANSACTIONS),
              categories |-> categoriesResult.categories]

\* DashboardController.loadDashboardData(), for the signed-in user
loadDashboardData(txs, cats, summaryOk, transactionsOk, categoriesOk) ==
    LET summaryResult == getFinancialSummary(txs, summaryOk)
        transactionsResult == getUserTransactions(txs, transactionsOk)
        categoriesResult == getUserCategories(cats, categoriesOk)
        failure(message) ==
            [success |-> FALSE, message |-> message, summary |-> <<>>,
             recentTransactions |-> <<>>, categories |-> <<>>]
    IN  IF ~summaryResult.success THEN failure(summaryResult.message)
        ELSE IF ~transactionsResult.success THEN failure(transactionsResult.message)
        ELSE IF ~categoriesResult.success THEN failure(categoriesResult.message)
        ELSE [success |-> TRUE, message |-> "Dados do dashboard carregados com sucesso!",
              summary |-> summaryResult.summary,
              recentTransactions |->
                slice(sortTransactionsByDate(transactionsResult.transactions),
                      MAX_RECENT_TRANSACTIONS),
              categories |-> categoriesResult.categories]

\* a call of loadDashboardData; result.data is the DashboardData it returns
LoadDashboardData(summaryOk, transactionsOk, categoriesOk) ==
    LET loaded == loadDashboardData(transactions, categories,
                                    summaryOk, transactionsOk, categoriesOk)
    IN  /\ UNCHANGED <<categories, transactions, nextCatKey, nextTxKey, now, tz, currentUser>>
        /\ result' =
            IF currentUser = NoUser
            THEN Response("loadDashboardData", FALSE, "Usuário não autenticado", 0, NoData)
            ELSE Response("loadDashboardData", loaded.success, loaded.message, 0,
                IF loaded.success
                THEN <<[summary |-> loaded.summary[1],
                        recentTransactions |-> loaded.recentTransactions,
                        categories |-> loaded.categories]>>
                ELSE NoData)

\* DashboardController.getAllTransactionsForHistory(userId)
getAllTransactionsForHistory(txs, cats, transactionsOk, categoriesOk) ==
    LET transactionsResult == getUserTransactions(txs, transactionsOk)
        categoriesResult == getUserCategories(cats, categoriesOk)
    IN  IF ~transactionsResult.success
        THEN [success |-> FALSE, message |-> transactionsResult.message,
              transactions |-> <<>>, categories |-> <<>>]
        ELSE IF ~categoriesResult.success
        THEN [success |-> FALSE, message |-> categoriesResult.message,
              transactions |-> <<>>, categories |-> <<>>]
        ELSE [success |-> TRUE, message |-> "Dados carregados com sucesso",
              transactions |-> transactionsResult.transactions,
              categories |-> categoriesResult.categories]

(***************************************************************************)
(* HistoryView                                                             *)
(***************************************************************************)
\* monthsMap of processMonthsData after the forEach: the groups in the order
\* their keys were first seen, keyed by the local year and month of the date
RECURSIVE monthsMapOf(_, _)
monthsMapOf(list, offset) ==
    IF list = <<>> THEN <<>>
    ELSE LET before == monthsMapOf(SubSeq(list, 1, Len(list) - 1), offset)
             transaction == list[Len(list)]
             year == getFullYear(DateParse(transaction.data), offset)
             month == getMonth(DateParse(transaction.data), offset)
             at == {i \in 1..Len(before) : before[i].year = year /\ before[i].month = month}
         IN  IF at = {}
             THEN Append(before, [year |-> year, month |-> month,
                                  transactions |-> <<transaction>>])
             ELSE [i \in 1..Len(before) |->
                    IF i \in at
                    THEN [before[i] EXCEPT !.transactions = Append(@, transaction)]
                    ELSE before[i]]

\* the comparator of processMonthsData: g sorts before an entry of a later
\* year, or of a later month of its year
insertMonth(sorted, g) ==
    LET n == Cardinality({i \in 1..Len(sorted) :
                ~(IF g.year # sorted[i].year THEN g.year > sorted[i].year
                  ELSE g.month > sorted[i].month)})
    IN  SubSeq(sorted, 1, n) \o <<g>> \o SubSeq(sorted, n + 1, Len(sorted))

RECURSIVE sortMonths(_)
sortMonths(groups) ==
    IF groups = <<>> THEN <<>>
    ELSE insertMonth(sortMonths(SubSeq(groups, 1, Len(groups) - 1)), groups[Len(groups)])

\* HistoryView.processMonthsData: the value it gives monthsData
processMonthsData(list, offset) == sortMonths(monthsMapOf(list, offset))

\* HistoryView.loadHistoryData(); result.data is monthsData after it
LoadHistoryData(transactionsOk, categoriesOk) ==
    LET loaded == getAllTransactionsForHistory(transactions, categories,
                                               transactionsOk, categoriesOk)
    IN  /\ UNCHANGED <<categories, transactions, nextCatKey, nextTxKey, now, tz, currentUser>>
        /\ IF loaded.success
           THEN result' = Response("loadHistoryData", TRUE, loaded.message, 0,
                                   processMonthsData(loaded.transactions, tz))
           ELSE result' = Response("loadHistoryData", FALSE, loaded.message, 0, NoData)

(***************************************************************************)
(* ChartView                                                               *)
(***************************************************************************)
maxPoints == 30
Dash == <<"-">>
UnknownCategory ==
    <<"C","a","t","e","g","o","r","i","a"," ","D","e","s","c","o","n","h","e","c","i","d","a">>

\* ChartView.loadData: the dashboard's recentTransactions and categories
loadData(txs, cats, summaryOk, transactionsOk, categoriesOk) ==
    LET loaded == loadDashboardData(txs, cats, summaryOk, transactionsOk, categoriesOk)
    IN  [ok |-> loaded.success,
         transactions |-> loaded.recentTransactions,
         categories |-> loaded.categories]

\* ChartView.filterTransactionsByPeriod
filterTransactionsByPeriod(list, days, instant) ==
    IF days = 0 - 1 THEN list
    ELSE SelectSeq(list, LAMBDA t : dateTime(t) >= addDays(instant, 0 - days))

\* ChartView.filterTransactionsByType
filterTransactionsByType(list, type) ==
    IF type = "income" THEN SelectSeq(list, LAMBDA t : Has(t, "tipo") /\ t.tipo = "receita")
    ELSE IF type = "expense"
    THEN SelectSeq(list, LAMBDA t : Has(t, "tipo") /\ t.tipo = "despesa")
    ELSE list

\* list.reduce((sum, t) => sum + t.valor, 0)
RECURSIVE sumValor(_)
sumValor(list) ==
    IF list = <<>> THEN Num(0)
    ELSE NumAdd(sumValor(SubSeq(list, 1, Len(list) - 1)), valorOf(list[Len(list)]))

categoriaIdOf(t) == IF Has(t, "categoriaId") THEN t.categoriaId ELSE (0 - 1)

\* categories.find(c => c.id === categoryId)?.nome, or the fallback
categoryName(cats, categoryId, fallback) ==
    LET found == SelectSeq(cats, LAMBDA c : Has(c, "id") /\ c.id = categoryId)
    IN  IF found = <<>> THEN fallback ELSE found[1].nome

\* categoryTotals of updateStatistics: expense per category, in insertion order
RECURSIVE categoryTotalsOf(_)
categoryTotalsOf(list) ==
    IF list = <<>> THEN <<>>
    ELSE LET before == categoryTotalsOf(SubSeq(list, 1, Len(list) - 1))
             transaction == list[Len(list)]
             key == categoriaIdOf(transaction)
             at == {i \in 1..Len(before) : before[i].key = key}
             \* categoryTotals.get(key) || 0
             orZero(n) == IF n.nan THEN Num(0) ELSE n
         IN  IF at = {}
             THEN Append(before, [key |-> key, amount |-> valorOf(transaction)])
             ELSE [i \in 1..Len(before) |->
                    IF i \in at
                    THEN [before[i] EXCEPT
                            !.amount = NumAdd(orZero(@), valorOf(transaction))]
                    ELSE before[i]]

\* the for loop of updateStatistics: the first category of the largest expense
RECURSIVE topCategoryOf(_, _)
topCategoryOf(totals, cats) ==
    IF totals = <<>> THEN [maxAmount |-> Num(0), topCategory |-> Dash]
    ELSE LET before == topCategoryOf(SubSeq(totals, 1, Len(totals) - 1), cats)
             entry == totals[Len(totals)]
         IN  IF NumGt(entry.amount, before.maxAmount)
             THEN [maxAmount |-> entry.amount,
                   topCategory |-> categoryName(cats, entry.key, Dash)]
             ELSE before

\* ChartView.updateStatistics: what the four statistics elements show
updateStatistics(list, cats) ==
    LET totalIncome == sumValor(filterTransactionsByType(list, "income"))
        totalExpenses == sumValor(filterTransactionsByType(list, "expense"))
    IN  [totalIncome |-> totalIncome,
         totalExpenses |-> totalExpenses,
         netBalance |-> NumSub(totalIncome, totalExpenses),
         topCategory |->
            topCategoryOf(categoryTotalsOf(filterTransactionsByType(list, "expense")),
                          cats).topCategory]

\* categoryData of updateCategoryBreakdown, in insertion order
RECURSIVE categoryDataOf(_)
categoryDataOf(list) ==
    IF list = <<>> THEN <<>>
    ELSE LET before == categoryDataOf(SubSeq(list, 1, Len(list) - 1))
             transaction == list[Len(list)]
             key == categoriaIdOf(transaction)
             at == {i \in 1..Len(before) : before[i].key = key}
             fresh == [key |-> key, income |-> Num(0), expense |-> Num(0), count |-> 0]
             add(data) ==
                IF Has(transaction, "tipo") /\ transaction.tipo = "receita"
                THEN [data EXCEPT !.count = @ + 1,
                                  !.income = NumAdd(@, valorOf(transaction))]
                ELSE [data EXCEPT !.count = @ + 1,
                                  !.expense = NumAdd(@, valorOf(transaction))]
         IN  IF at = {} THEN Append(before, add(fresh))
             ELSE [i \in 1..Len(before) |-> IF i \in at THEN add(before[i]) ELSE before[i]]

\* Math.abs(total) of a total that is a number
abs(n) == IF n.v < 0 THEN 0 - n.v ELSE n.v

\* the place of a row in the rows sorted so far: behind the last row that it
\* does not come before.  Math.abs(b.total) - Math.abs(a.total) is NaN when a
\* total is NaN, and sort takes NaN as 0, neither before nor behind
insertBreakdown(sorted, row) ==
    LET stops == {j \in 1..Len(sorted) :
                    \/ sorted[j].total.nan
                    \/ row.total.nan
                    \/ abs(sorted[j].total) >= abs(row.total)}
        n == IF stops = {} THEN 0 ELSE CHOOSE j \in stops : \A k \in stops : k <= j
    IN  SubSeq(sorted, 1, n) \o <<row>> \o SubSeq(sorted, n + 1, Len(sorted))

RECURSIVE sortBreakdown(_)
sortBreakdown(rows) ==
    IF rows = <<>> THEN <<>>
    ELSE insertBreakdown(sortBreakdown(SubSeq(rows, 1, Len(rows) - 1)), rows[Len(rows)])

\* ChartView.updateCategoryBreakdown: the rows of the table, largest |total| first
updateCategoryBreakdown(list, cats) ==
    LET categoryData == categoryDataOf(list)
    IN  sortBreakdown(
            [i \in 1..Len(categoryData) |->
                [name |-> categoryName(cats, categoryData[i].key, UnknownCategory),
                 income |-> categoryData[i].income,
                 expense |-> categoryData[i].expense,
                 total |-> NumSub(categoryData[i].income, categoryData[i].expense),
                 count |-> categoryData[i].count]])

insertOldestFirst(sorted, t) ==
    LET n == Cardinality({i \in 1..Len(sorted) : dateTime(sorted[i]) <= dateTime(t)})
    IN  SubSeq(sorted, 1, n) \o <<t>> \o SubSeq(sorted, n + 1, Len(sorted))

\* [...transactions].sort(by date ascending)
RECURSIVE sortOldestFirst(_)
sortOldestFirst(list) ==
    IF list = <<>> THEN <<>>
    ELSE insertOldestFirst(sortOldestFirst(SubSeq(list, 1, Len(list) - 1)), list[Len(list)])

\* dailyBalance.set(key, value)
MapSet(map, key, value) ==
    [k \in DOMAIN map \cup {key} |-> IF k = key THEN value ELSE map[k]]

\* the fill loops of updateLineChart, in closed form: while currentDate is
\* before the limit (or at it, when inclusive), give the day the running
\* balance unless it has one, and step one day
fillDays(dailyBalance, currentDate, limit, inclusive, runningBalance) ==
    LET span == limit - currentDate
        steps ==
            IF span < 0 THEN 0
            ELSE IF inclusive THEN span \div MinutesPerDay + 1
            ELSE (span + MinutesPerDay - 1) \div MinutesPerDay
        dayKeys == {toISODate(addDays(currentDate, i)) : i \in 0..(steps - 1)}
    IN  [dailyBalance |->
            [k \in DOMAIN dailyBalance \cup dayKeys |->
                IF k \in DOMAIN dailyBalance THEN dailyBalance[k] ELSE runningBalance],
         currentDate |-> addDays(currentDate, steps)]

\* the for loop of updateLineChart over the sorted transactions
RECURSIVE dailyBalanceOf(_, _, _, _)
dailyBalanceOf(sortedTransactions, dailyBalance, currentDate, runningBalance) ==
    IF sortedTransactions = <<>>
    THEN [dailyBalance |-> dailyBalance, currentDate |-> currentDate,
          runningBalance |-> runningBalance]
    ELSE LET transaction == sortedTransactions[1]
             transactionDate == dateTime(transaction)
             filled == fillDays(dailyBalance, currentDate, transactionDate, FALSE,
                                runningBalance)
             balance ==
                IF Has(transaction, "tipo") /\ transaction.tipo = "receita"
                THEN NumAdd(runningBalance, valorOf(transaction))
                ELSE NumSub(runningBalance, valorOf(transaction))
         IN  dailyBalanceOf(Tail(sortedTransactions),
                            MapSet(filled.dailyBalance, toISODate(transactionDate), balance),
                            filled.currentDate, balance)

\* a set of instants in ascending order
RECURSIVE ascending(_)
ascending(instants) ==
    IF instants = {} THEN <<>>
    ELSE LET first == CHOOSE a \in instants : \A b \in instants : a <= b
         IN  <<first>> \o ascending(instants \ {first})

\* Array.from(dailyBalance.keys()).sort(): ISO date strings sort in calendar
\* order, the order of their instants
sortDates(keys) ==
    LET instants == ascending({DateParse(k) : k \in keys})
    IN  [i \in 1..Len(instants) |-> toISODate(instants[i])]

\* toLocaleDateString('pt-BR', day and month, the year when totalDays > 365) of
\* new Date(dateKey)
labelOf(dateKey, totalDays, offset) ==
    LET local == LocalCivil(DateParse(dateKey), offset)
    IN  IF totalDays > 365 THEN <<local[3], local[2], local[1] % 100>>
        ELSE <<local[3], local[2]>>

\* the walk of updateLineChart over the sorted transactions, from the day
\* before the first one, and the fill up to today
dailyBalanceUntil(sortedTransactions, instant) ==
    LET walked == dailyBalanceOf(sortedTransactions, <<>>,
                                 addDays(dateTime(sortedTransactions[1]), 0 - 1), Num(0))
    IN  fillDays(walked.dailyBalance, walked.currentDate, instant, TRUE,
                 walked.runningBalance).dailyBalance

\* one point of the chart; the balance is dailyBalance.get(dateKey) || 0
chartPoint(dailyBalance, dateKey, totalDays, offset) ==
    [label |-> labelOf(dateKey, totalDays, offset),
     balance |-> IF dailyBalance[dateKey].nan THEN 0 ELSE dailyBalance[dateKey].v]

\* the for loop over sortedDates with i += step, and the last point once more
\* when step > 1
sampledPoints(dailyBalance, sortedDates, step, offset) ==
    LET strided ==
            [i \in 1..((Len(sortedDates) - 1) \div step + 1) |->
                chartPoint(dailyBalance, sortedDates[(i - 1) * step + 1],
                           Len(sortedDates), offset)]
    IN  IF step > 1
        THEN Append(strided, chartPoint(dailyBalance, sortedDates[Len(sortedDates)],
                                        Len(sortedDates), offset))
        ELSE strided

\* step = Math.max(1, Math.floor(totalDays / maxPoints))
chartPoints(dailyBalance, sortedDates, offset) ==
    sampledPoints(dailyBalance, sortedDates,
                  IF Len(sortedDates) \div maxPoints > 1
                  THEN Len(sortedDates) \div maxPoints ELSE 1,
                  offset)

\* ChartView.updateLineChart: the points handed to the chart, none when the
\* list is empty
updateLineChart(list, instant, offset) ==
    IF list = <<>> THEN <<>>
    ELSE LET dailyBalance == dailyBalanceUntil(sortOldestFirst(list), instant)
         IN  chartPoints(dailyBalance, sortDates(DOMAIN dailyBalance), offset)

\* ChartView.updateCharts() with the period and type of the two selects;
\* result.data is what the statistics, the evolution chart and the breakdown show
UpdateCharts(period, type, summaryOk, transactionsOk, categoriesOk) ==
    LET loaded == loadData(transactions, categories, summaryOk, transactionsOk, categoriesOk)
        filteredTransactions ==
            filterTransactionsByType(
                filterTransactionsByPeriod(loaded.transactions, period, now), type)
    IN  /\ UNCHANGED <<categories, transactions, nextCatKey, nextTxKey, now, tz, currentUser>>
        /\ IF ~loaded.ok
           THEN result' = Response("updateCharts", FALSE, "Erro ao carregar dados", 0, NoData)
           ELSE result' = Response("updateCharts", TRUE, "", 0,
                    <<[statistics |-> updateStatistics(filteredTransactions, loaded.categories),
                       evolution |-> updateLineChart(loaded.transactions, now, tz),
                       breakdown |-> updateCategoryBreakdown(filteredTransactions,
                                                             loaded.categories)]>>)

(***************************************************************************)
(* SpecViews: the history and the charts over a small ledger, in three     *)
(* time zones                                                              *)
(***************************************************************************)
MaxViewCat == 2     \* push() keys handed out under categories/{userId}
MaxViewTx == 2      \* push() keys handed out under transactions/{userId}

ViewTransactionInputs ==
    {TransactionData(sMercado, 5, tipo, c, d) :
        tipo \in {"receita", "despesa"}, c \in 1..MaxViewCat, d \in {Jan15, Feb01}}

ViewPatches == {[id |-> k, valor |-> 7, data |-> Jan15] : k \in 1..MaxViewTx}

ChartPeriods == {0 - 1, 30, 90}
ChartTypes == {"both", "income", "expense"}

\* the three reads of loadDashboardData (summary, transactions, categories):
\* all succeed, or one of them fails
ReadOutcomes ==
    {<<TRUE, TRUE, TRUE>>, <<FALSE, TRUE, TRUE>>, <<TRUE, FALSE, TRUE>>, <<TRUE, TRUE, FALSE>>}

\* the browser in Brasília, in UTC or in Tokyo
InitViews == InitStore /\ tz \in {BRT, UTC, 9 * 60} /\ currentUser = userId

NextViews ==
    \/ \E data \in LedgerCategoryInputs :
        nextCatKey <= MaxViewCat /\ CreateCategory(data, TRUE, TRUE)
        /\ UNCHANGED pending
    \/ \E data \in ViewTransactionInputs :
        nextTxKey <= MaxViewTx /\ CreateTransaction(data, TRUE, TRUE)
        /\ UNCHANGED pending
    \/ \E data \in ViewPatches : UpdateTransaction(data, TRUE, TRUE)
        /\ UNCHANGED pending
    \/ \E transactionsOk \in BOOLEAN, categoriesOk \in BOOLEAN :
        LoadHistoryData(transactionsOk, categoriesOk)
        /\ UNCHANGED pending
    \/ \E period \in ChartPeriods, type \in ChartTypes, ok \in ReadOutcomes :
        UpdateCharts(period, type, ok[1], ok[2], ok[3])
        /\ UNCHANGED pending

SpecViews == InitViews /\ [][NextViews]_vars

(***************************************************************************)
(* SpecChart: the evolution chart over a ledger that outgrows the          *)
(* dashboard's list of recent transactions                                 *)
(***************************************************************************)
MaxChartCat == 1    \* push() keys handed out under categories/{userId}
MaxChartTx == 11    \* push() keys handed out under transactions/{userId}

ChartTransactionInputs ==
    {TransactionData(sMercado, 5, "receita", 1, <<2023, 12, 20>>),
     TransactionData(sMercado, 2, "despesa", 1, Feb01)}

NextChart ==
    \/ nextCatKey <= MaxChartCat /\ CreateCategory(CategoryData(sLazer, sWhite), TRUE, TRUE)
        /\ UNCHANGED pending
    \/ \E data \in ChartTransactionInputs :
        nextTxKey <= MaxChartTx /\ CreateTransaction(data, TRUE, TRUE)
        /\ UNCHANGED pending
    \/ \E ok \in ReadOutcomes : UpdateCharts(0 - 1, "both", ok[1], ok[2], ok[3])
        /\ UNCHANGED pending

SpecChart == Init /\ [][NextChart]_vars

(***************************************************************************)
(* Claims on the views (SpecViews, SpecChart)                              *)
(***************************************************************************)
\* C7: monthsData after a successful loadHistoryData partitions the loaded
\* transactions by the year and month of their date: every transaction is in
\* exactly one group, once; every group is non-empty and holds only
\* transactions whose date has the group's year and month (month 0-based, as
\* getMonth gives it); the groups are strictly descending by (year, month).
C7_MonthsPartition ==
    (result.op = "loadHistoryData" /\ result.success) =>
        LET monthsData == result.data
            input == getTransactionsByUser(transactions)
        IN  /\ \A n \in 1..Len(input) :
                Cardinality({p \in (1..Len(monthsData)) \X (1..Len(input)) :
                    /\ p[2] <= Len(monthsData[p[1]].transactions)
                    /\ monthsData[p[1]].transactions[p[2]] = input[n]}) = 1
            /\ \A i \in 1..Len(monthsData) :
                /\ monthsData[i].transactions # <<>>
                /\ \A j \in 1..Len(monthsData[i].transactions) :
                    LET t == monthsData[i].transactions[j]
                    IN  /\ \E n \in 1..Len(input) : input[n] = t
                        /\ t.data[1] = monthsData[i].year
                        /\ t.data[2] = monthsData[i].month + 1
            /\ \A i \in 1..Len(monthsData), j \in 1..Len(monthsData) :
                i < j =>
                    \/ monthsData[i].year > monthsData[j].year
                    \/ /\ monthsData[i].year = monthsData[j].year
                       /\ monthsData[i].month > monthsData[j].month

\* the sum of one numeric column of the breakdown rows
RECURSIVE sumColumn(_, _)
sumColumn(rows, column) ==
    IF rows = <<>> THEN Num(0)
    ELSE NumAdd(sumColumn(Tail(rows), column), rows[1][column])

RECURSIVE sumCount(_)
sumCount(rows) == IF rows = <<>> THEN 0 ELSE rows[1].count + sumCount(Tail(rows))

C9_FinalPointIsBalance ==
    (/\ result.op = "updateCharts"
     /\ result.success
     /\ result.data[1].evolution # <<>>) =>
        LET evolution == result.data[1].evolution
        IN  Num(evolution[Len(evolution)].balance) =
                NumSub(SumOfKind(DOMAIN transactions, "receita"),
                       SumOfKind(DOMAIN transactions, "despesa"))

(***************************************************************************)
(* SpecDash: the dashboard over a ledger that outgrows the list of recent  *)
(* transactions, every fetch free to fail                                  *)
(***************************************************************************)
MaxDashCat == 1     \* push() keys handed out under categories/{userId}
MaxDashTx == 11     \* push() keys handed out under transactions/{userId}

\* the transaction created under the given key: the first three and the last
\* two creates choose between an older income and a newer expense, the
\* creates between them add the older income
DashTransactionInputs(key) ==
    {TransactionData(sMercado, 5, "receita", 1, Jan15)}
        \cup {TransactionData(sMercado, 2, "despesa", 1, Feb01) :
                k \in {key} \ (4..(MaxDashTx - 2))}

DashPatches == {[id |-> 2, valor |-> 7]}

NextDash ==
    \/ nextCatKey <= MaxDashCat /\ CreateCategory(CategoryData(sLazer, sWhite), TRUE, TRUE)
        /\ UNCHANGED pending
    \/ \E data \in DashTransactionInputs(nextTxKey) :
        nextTxKey <= MaxDashTx /\ CreateTransaction(data, TRUE, TRUE)
        /\ UNCHANGED pending
    \/ \E data \in DashPatches : UpdateTransaction(data, TRUE, TRUE)
        /\ UNCHANGED pending
    \/ \E summaryOk \in BOOLEAN, transactionsOk \in BOOLEAN, categoriesOk \in BOOLEAN :
        LoadDashboardData(summaryOk, transactionsOk, categoriesOk)
        /\ UNCHANGED pending

SpecDash == Init /\ [][NextDash]_vars

(***************************************************************************)
(* Claims on the dashboard (SpecDash)                                      *)
(***************************************************************************)
\* C11: whenever one of the three fetches of loadDashboardData fails, the
\* call answers success=false without data and with the message of the first
\* failed fetch, in the order summary, transactions, categories; it answers
\* with data only when all three fetches succeeded.
C11_DashboardAllOrNothing ==
    [][result'.op = "loadDashboardData" =>
        \A summaryOk \in BOOLEAN, transactionsOk \in BOOLEAN, categoriesOk \in BOOLEAN :
          LoadDashboardData(summaryOk, transactionsOk, categoriesOk) =>
            /\ result'.success = (summaryOk /\ transactionsOk /\ categoriesOk)
            /\ ~summaryOk => result'.message = "Erro ao calcular resumo financeiro"
            /\ summaryOk /\ ~transactionsOk =>
                    result'.message = "Erro ao carregar transações"
            /\ summaryOk /\ transactionsOk /\ ~categoriesOk =>
                    result'.message = "Erro ao carregar categorias"
            /\ (result'.data # NoData) = (summaryOk /\ transactionsOk /\ categoriesOk)]_vars

\* a dashboard call whose category fetch alone failed, over a ledger with
\* transactions and a category
C11_Witness ==
    ~(/\ result.op = "loadDashboardData"
      /\ ~result.success
      /\ result.message = "Erro ao carregar categorias"
      /\ result.data = NoData
      /\ DOMAIN transactions # {}
      /\ DOMAIN categories # {})

\* C12: in a successful loadDashboardData result, recentTransactions holds
\* min(10, number of stored transactions) distinct stored transactions, the
\* dates of its entries never increase along the list, and no stored
\* transaction left out of it is dated later than one of its entries.
C12_RecentAreTheNewest ==
    (result.op = "loadDashboardData" /\ result.success) =>
        LET recent == result.data[1].recentTransactions
            count == Cardinality(DOMAIN transactions)
            included == {recent[i].id : i \in 1..Len(recent)}
        IN  /\ Len(recent) = IF count < MAX_RECENT_TRANSACTIONS
                             THEN count ELSE MAX_RECENT_TRANSACTIONS
            /\ Cardinality(included) = Len(recent)
            /\ \A i \in 1..Len(recent) : recent[i] = transactions[recent[i].id]
            /\ \A i \in 1..Len(recent), j \in 1..Len(recent) :
                (i < j /\ Has(recent[i], "data") /\ Has(recent[j], "data")) =>
                    DateParse(recent[i].data) >= DateParse(recent[j].data)
            /\ \A k \in DOMAIN transactions \ included, i \in 1..Len(recent) :
                (Has(transactions[k], "data") /\ Has(recent[i], "data")) =>
                    DateParse(transactions[k].data) <= DateParse(recent[i].data)

(***************************************************************************)
(* Further claims on the registry and the ledger (Spec)                    *)
(***************************************************************************)
\* C13: a successful updateTransaction or updateCategory of a stored record
\* leaves the record equal to the previous record with the fields of the
\* patch replaced: the fields absent from the patch, id and userId among
\* them, keep their values.
C13_UpdateIsPatch ==
    [][/\ (result'.op = "updateTransaction" /\ result'.success) =>
            \A data \in TransactionPatches :
                (data.id \in DOMAIN transactions /\ UpdateTransaction(data, TRUE, TRUE)) =>
                    transactions'[data.id] = Spread(transactions[data.id], data)
       /\ (result'.op = "updateCategory" /\ result'.success) =>
            \A data \in CategoryPatches :
                (data.id \in DOMAIN categories /\ UpdateCategory(data, TRUE, TRUE)) =>
                    categories'[data.id] = Spread(categories[data.id], data)]_vars

\* C14: every call ends with a {success, message} result, and a call in
\* which a store call failed (a read it made, or the write it attempted)
\* never ends with success: the outcome is success=false with one of the
\* fixed messages.
C14_StoreFailureIsFailure ==
    [][/\ result'.success \in BOOLEAN
       /\ result'.success =>
            /\ \A data \in CategoryInputs, readOk \in BOOLEAN, writeOk \in BOOLEAN :
                (validateCategoryData(data, FALSE).isValid /\ ~(readOk /\ writeOk)) =>
                    ~CreateCategory(data, readOk, writeOk)
            /\ \A data \in CategoryPatches, readOk \in BOOLEAN, writeOk \in BOOLEAN :
                (data.id # 0 /\ ~(readOk /\ writeOk)) =>
                    ~UpdateCategory(data, readOk, writeOk)
            /\ \A categoryId \in 1..MaxCatKey, readOk \in BOOLEAN, writeOk \in BOOLEAN :
                ~(readOk /\ writeOk) => ~DeleteCategory(categoryId, readOk, writeOk)
            /\ \A data \in TransactionInputs, readOk \in BOOLEAN, writeOk \in BOOLEAN :
                (validateTransactionData(data, FALSE, now, tz).isValid
                    /\ ~(readOk /\ writeOk)) =>
                    ~CreateTransaction(data, readOk, writeOk)
            /\ \A data \in TransactionPatches, readOk \in BOOLEAN, writeOk \in BOOLEAN :
                (data.id # 0 /\ ~(IF Has(data, "categoriaId") THEN readOk /\ writeOk
                                  ELSE writeOk)) =>
                    ~UpdateTransaction(data, readOk, writeOk)
            /\ \A transactionId \in 1..MaxTxKey :
                ~DeleteTransaction(transactionId, FALSE)]_vars

(***************************************************************************)
(* Calls under way at once.  A controller method gives up control at each  *)
(* await, so between the read it checks and the write it makes another     *)
(* call can run.  pending[c] holds the call of flow c that waits there.    *)
(***************************************************************************)
Waiting(op, pc, arg) == [op |-> op, pc |-> pc, arg |-> arg]
Done == Waiting("done", "done", <<>>)

\* AuthController.register once authService.register has resolved: register
\* goes on to ensureDefaultCategories, and the auth-state listener shows the
\* dashboard, whose loadDashboardData starts
Register ==
    /\ \A c \in Callers : pending[c] = Idle
    /\ pending' = [pending EXCEPT ![1] = Waiting("register", "read", <<>>),
                                  ![2] = Waiting("loadDashboardData", "check", <<>>)]
    /\ UNCHANGED <<categories, transactions, nextCatKey, nextTxKey, now, tz, currentUser, result>>

\* DashboardView.loadDashboardData up to its call of createDefaultCategories:
\* it makes the call when getUserCategories succeeds with an empty list
DashboardViewCheck(readOk) ==
    LET categoriesResult == getUserCategories(categories, readOk)
    IN  /\ pending[2].pc = "check"
        /\ pending' = [pending EXCEPT ![2] =
                IF categoriesResult.success /\ Len(categoriesResult.categories) = 0
                THEN Waiting("loadDashboardData", "read", <<>>)
                ELSE Done]
        /\ UNCHANGED <<categories, transactions, nextCatKey, nextTxKey, now, tz, currentUser, result>>

\* createDefaultCategories up to the end of its check of the existing categories
CreateDefaultCategoriesRead(c, readOk) ==
    /\ pending[c].pc = "read"
    /\ UNCHANGED <<categories, transactions, nextCatKey, nextTxKey, now, tz, currentUser>>
    /\ IF ~readOk
       THEN /\ result' = Response("createDefaultCategories", FALSE,
                                  "Erro ao criar categorias padrão. Tente novamente.", 0, NoData)
            /\ pending' = [pending EXCEPT ![c] = Done]
       ELSE IF hasCategories(getCategoriesByUser(categories))
       THEN /\ result' = Response("createDefaultCategories", TRUE,
                                  "Usuário já possui categorias", 0, NoData)
            /\ pending' = [pending EXCEPT ![c] = Done]
       ELSE /\ pending' = [pending EXCEPT ![c] = Waiting(pending[c].op, "write", <<>>)]
            /\ UNCHANGED result

\* createDefaultCategories from its loop on; the fourteen writes of one call
\* are taken together, the other call's steps coming before or after them
CreateDefaultCategoriesWrite(c, writeOks) ==
    LET done == createDefaultsLoop(categories, nextCatKey, writeOks)
    IN  /\ pending[c].pc = "write"
        /\ UNCHANGED <<transactions, nextTxKey, now, tz, currentUser>>
        /\ categories' = done.categories
        /\ nextCatKey' = done.nextKey
        /\ pending' = [pending EXCEPT ![c] = Done]
        /\ result' =
            IF done.createdCount > 0
            THEN Response("createDefaultCategories", TRUE,
                          MsgCatDefaultsCreatedN(done.createdCount), 0, NoData)
            ELSE Response("createDefaultCategories", FALSE,
                          "Erro ao criar categorias padrão", 0, NoData)

(***************************************************************************)
(* SpecRace: a registration, whose bootstrap runs while the dashboard of   *)
(* the new session runs its own                                            *)
(***************************************************************************)
NextRace ==
    \/ Register
    \/ \E readOk \in BOOLEAN : DashboardViewCheck(readOk)
    \/ \E c \in Callers, readOk \in BOOLEAN : CreateDefaultCategoriesRead(c, readOk)
    \* the outcomes of the 14 writes of a loop: all accepted (k = 0), all but
    \* the k-th accepted, or none accepted
    \/ \E c \in Callers,
          writeOks \in {[i \in 1..Len(defaultCategories) |-> i # k] :
                            k \in 0..Len(defaultCategories)}
                        \cup {[i \in 1..Len(defaultCategories) |-> FALSE]} :
        CreateDefaultCategoriesWrite(c, writeOks)

SpecRace == Init /\ [][NextRace]_vars

(***************************************************************************)
(* Claims on calls under way at once (SpecRace)                            *)
(***************************************************************************)
\* two categories of the user have names that are equal when letter case is
\* ignored
RepeatedNames ==
    \E j \in DOMAIN categories, k \in DOMAIN categories :
        /\ j # k
        /\ Has(categories[j], "nome") /\ Has(categories[k], "nome")
        /\ toLowerCase(categories[j].nome) = toLowerCase(categories[k].nome)

\* C19: two createDefaultCategories calls can both have observed zero
\* categories; each of them then writes its whole catalog whatever the store
\* holds by that time, so with every write accepted the second call adds 14
\* categories to the 14 of the first.
C19_BothCallsCreateCatalog ==
    [][\A c \in Callers :
          CreateDefaultCategoriesWrite(c, AllWritesOk) =>
            /\ Cardinality(DOMAIN categories') =
                    Cardinality(DOMAIN categories) + Len(defaultCategories)
            /\ result'.success]_vars

\* the registration's call and the dashboard's call have both run their
\* loops: more than 14 categories, with repeated names
C19_Witness ==
    ~(/\ pending[1] = Done /\ pending[2] = Done
      /\ Cardinality(DOMAIN categories) > Len(defaultCategories)
      /\ RepeatedNames)

\* C20: in every reachable state no two categories of the user have names
\* that are equal ignoring case, bootstrap writes included.
C20_NamesUniqueIgnoringCase == ~RepeatedNames

(***************************************************************************)
(* SpecInterleaved: createTransaction and deleteCategory as the two steps  *)
(* their awaits make of them (the check, then the write), two calls in     *)
(* flight at a time, every store call succeeding                           *)
(***************************************************************************)
\* createTransaction up to the answer of validateCategoryExists
CreateTransactionCheck(c, data) ==
    LET validation == validateTransactionData(data, FALSE, now, tz)
    IN  /\ pending[c] = Idle
        /\ UNCHANGED <<categories, transactions, nextCatKey, nextTxKey, now, tz, currentUser>>
        /\ IF ~validation.isValid
           THEN /\ result' = Response("createTransaction", FALSE, validation.message, 0, NoData)
                /\ UNCHANGED pending
           ELSE IF ~validateCategoryExists(categories, TRUE, data.categoriaId)
           THEN /\ result' = Response("createTransaction", FALSE, "Categoria não encontrada", 0, NoData)
                /\ UNCHANGED pending
           ELSE /\ pending' = [pending EXCEPT ![c] = Waiting("createTransaction", "write", data)]
                /\ UNCHANGED result

\* createTransaction from transactionService.createTransaction on
CreateTransactionWrite(c) ==
    LET data == pending[c].arg
        key == nextTxKey
        recorrente == IF Has(data, "recorrente") THEN data.recorrente ELSE FALSE
        stored == Spread(Spread(Spread([userId |-> userId], data),
                                [recorrente |-> recorrente]), [id |-> key])
    IN  /\ pending[c].op = "createTransaction"
        /\ UNCHANGED <<categories, nextCatKey, now, tz, currentUser>>
        /\ result' = Response("createTransaction", TRUE, "Transação criada com sucesso!", key, NoData)
        /\ nextTxKey' = key + 1
        /\ transactions' = DbSet(transactions, key, stored)
        /\ pending' = [pending EXCEPT ![c] = Idle]

\* deleteCategory up to the answer of checkCategoryHasTransactions
DeleteCategoryCheck(c, categoryId) ==
    /\ pending[c] = Idle
    /\ UNCHANGED <<categories, transactions, nextCatKey, nextTxKey, now, tz, currentUser>>
    /\ IF categoryId = 0
       THEN /\ result' = Response("deleteCategory", FALSE, "ID da categoria é obrigatório", 0, NoData)
            /\ UNCHANGED pending
       ELSE IF checkCategoryHasTransactions(transactions, TRUE, categoryId)
       THEN /\ result' = Response("deleteCategory", FALSE, "Não é possível deletar categoria com transações associadas. Delete as transações primeiro.", 0, NoData)
            /\ UNCHANGED pending
       ELSE /\ pending' = [pending EXCEPT ![c] = Waiting("deleteCategory", "write", categoryId)]
            /\ UNCHANGED result

\* deleteCategory from categoryService.deleteCategory on
DeleteCategoryWrite(c) ==
    /\ pending[c].op = "deleteCategory"
    /\ UNCHANGED <<transactions, nextCatKey, nextTxKey, now, tz, currentUser>>
    /\ result' = Response("deleteCategory", TRUE, "Categoria deletada com sucesso!", 0, NoData)
    /\ categories' = DbRemove(categories, pending[c].arg)
    /\ pending' = [pending EXCEPT ![c] = Idle]

NextInterleaved ==
    \/ \E data \in CategoryInputs :
        nextCatKey <= MaxCatKey /\ CreateCategory(data, TRUE, TRUE)
        /\ UNCHANGED pending
    \/ \E c \in Callers, data \in TransactionInputs :
        nextTxKey <= MaxTxKey /\ CreateTransactionCheck(c, data)
    \/ \E c \in Callers : CreateTransactionWrite(c)
    \/ \E c \in Callers, categoryId \in 0..MaxCatKey : DeleteCategoryCheck(c, categoryId)
    \/ \E c \in Callers : DeleteCategoryWrite(c)
    \/ \E transactionId \in 0..MaxTxKey :
        DeleteTransaction(transactionId, TRUE) /\ UNCHANGED pending

SpecInterleaved == Init /\ [][NextInterleaved]_vars

\* C15: every stored transaction names, in categoriaId, a category that the
\* store holds for the user
C15_ReferencesExist ==
    \A k \in DOMAIN transactions :
        /\ Has(transactions[k], "categoriaId")
        /\ \E j \in DOMAIN categories :
                Has(categories[j], "id") /\ categories[j].id = transactions[k].categoriaId

(***************************************************************************)
(* SpecValidate: the two validators applied to inputs drawn from small     *)
(* sets, in each of the time zones; result.data holds the input            *)
(***************************************************************************)
\* validateTransactionData(data), as createTransaction calls it
ValidateTransaction(data) ==
    LET validation == validateTransactionData(data, FALSE, now, tz)
    IN  /\ result' = Response("validateTransactionData", validation.isValid,
                              validation.message, 0, <<data>>)
        /\ UNCHANGED <<categories, transactions, nextCatKey, nextTxKey, now, tz, currentUser, pending>>

\* validateCategoryData(data), as createCategory calls it
ValidateCategory(data) ==
    LET validation == validateCategoryData(data, FALSE)
    IN  /\ result' = Response("validateCategoryData", validation.isValid,
                              validation.message, 0, <<data>>)
        /\ UNCHANGED <<categories, transactions, nextCatKey, nextTxKey, now, tz, currentUser, pending>>

\* the transactions validated: each field right or wrong, and for the date
\* today, tomorrow, the days around ten years ago, a day that no calendar
\* has, and a day of this year
ValidateTransactionInputs ==
    {TransactionData(descricao, valor, tipo, categoriaId, data) :
        descricao \in {sBlank, <<"a","b">>, sMercado},
        valor \in {0, 5, TX_MAX_VALOR + 1},
        tipo \in {"receita", "x"},
        categoriaId \in {0, 1},
        data \in {<<2024, 3, 2>>, <<2024, 3, 3>>, <<2014, 3, 1>>, <<2014, 3, 2>>,
                  <<2014, 3, 3>>, <<2024, 2, 30>>, Jan15}}

\* the categories validated
ValidateCategoryInputs ==
    {[nome |-> nome, cor |-> cor, descricao |-> <<"F","u","n">>, limiteGasto |-> limiteGasto] :
        nome \in {sBlank, <<"L">>, sLazer},
        cor \in {<<>>, <<"r","e","d">>, sWhite},
        limiteGasto \in {0 - 1, 5, MAX_SPENDING_LIMIT + 1}}

NextValidate ==
    \/ \E data \in ValidateTransactionInputs : ValidateTransaction(data)
    \/ \E data \in ValidateCategoryInputs : ValidateCategory(data)

SpecValidate == InitViews /\ [][NextValidate]_vars

\* the stage of the required order that a message belongs to: 1 non-empty,
\* 2 length, 3 numeric bounds, 4 colour format, 5 kind, 6 date, 7 no failure
StageOfMessage(message) ==
    IF message \in {"Descrição é obrigatória", "Categoria é obrigatória",
                    "Nome da categoria é obrigatório", "Cor da categoria é obrigatória",
                    "Descrição da categoria é obrigatória"} THEN 1
    ELSE IF message \in {"Descrição deve ter pelo menos 3 caracteres",
                         "Descrição deve ter no máximo 100 caracteres",
                         "Nome deve ter pelo menos 2 caracteres",
                         "Nome deve ter no máximo 30 caracteres"} THEN 2
    ELSE IF message \in {"Valor deve ser maior que zero",
                         "Valor deve ser menor que R$ 1.000.000,00",
                         "Limite de gasto não pode ser negativo",
                         "Limite de gasto deve ser menor que R$ 1.000.000,00"} THEN 3
    ELSE IF message = "Cor deve estar no formato hexadecimal (#RRGGBB)" THEN 4
    ELSE IF message = "Tipo deve ser \"receita\" ou \"despesa\"" THEN 5
    ELSE IF message \in {"Data inválida", "Data não pode ser futura",
                         "Data não pode ser anterior a 10 anos"} THEN 6
    ELSE 7

\* the stages before the date stage that a transaction input violates
TransactionStagesViolated(data) ==
    (IF ~isNotEmpty(data.descricao) \/ data.categoriaId = 0 THEN {1} ELSE {})
        \cup (IF Len(data.descricao) \notin 3..100 THEN {2} ELSE {})
        \cup (IF data.valor \notin 1..1000000 THEN {3} ELSE {})
        \cup (IF data.tipo \notin {"receita", "despesa"} THEN {5} ELSE {})

\* the stages that a category input violates
CategoryStagesViolated(data) ==
    (IF ~isNotEmpty(data.nome) \/ ~isNotEmpty(data.cor) \/ ~isNotEmpty(data.descricao)
     THEN {1} ELSE {})
        \cup (IF Len(data.nome) \notin 2..30 \/ Len(data.descricao) \notin 3..100
              THEN {2} ELSE {})
        \cup (IF data.limiteGasto \notin 0..1000000 THEN {3} ELSE {})
        \cup (IF ~hexColorRegex(data.cor) THEN {4} ELSE {})

\* C16: the message a validator returns belongs to the earliest stage of the
\* required order (non-empty, length, numeric bounds, colour format, kind,
\* date) that the input violates
C16_EarliestStageWins ==
    /\ result.op = "validateTransactionData" =>
        LET stages == TransactionStagesViolated(result.data[1])
        IN  IF stages = {} THEN StageOfMessage(result.message) >= 6
            ELSE \A s \in stages : StageOfMessage(result.message) <= s
    /\ result.op = "validateCategoryData" =>
        LET stages == CategoryStagesViolated(result.data[1])
        IN  IF stages = {} THEN StageOfMessage(result.message) = 7
            ELSE \A s \in stages : StageOfMessage(result.message) <= s

\* C17: of the inputs right in every other field, validation accepts the
\* dates that a calendar has and that lie from the day after ten years ago
\* up to today, rejects a day no calendar has, rejects a later day as future
\* and a day before ten years ago as too old (the day exactly ten years ago
\* is left open)
C17_DateWindow ==
    (result.op = "validateTransactionData"
        /\ TransactionStagesViolated(result.data[1]) = {}) =>
        LET d == result.data[1].data
            today == LocalCivil(now, tz)
            calendar == d[2] \in 1..12 /\ d[3] \in 1..DaysInMonth(d[1], d[2])
            day == DaysFromCivil(d[1], d[2], d[3])
            last == DaysFromCivil(today[1], today[2], today[3])
            first == DaysFromCivil(today[1] - 10, today[2], today[3])
        IN  /\ ~calendar => ~result.success
            /\ (calendar /\ day > last) =>
                    (~result.success /\ result.message = "Data não pode ser futura")
            /\ (calendar /\ day < first) =>
                    (~result.success /\ result.message = "Data não pode ser anterior a 10 anos")
            /\ (calendar /\ day > first /\ day <= last) => result.success

(***************************************************************************)
(* The field constraints of the stored transactions (Spec)                 *)
(***************************************************************************)
\* C18: every stored transaction has a valor in (0, 1000000], a descricao
\* of 3 to 100 characters, a tipo of receita or despesa and a non-empty
\* categoriaId
C18_StoredTransactionsValid ==
    \A k \in DOMAIN transactions :
        LET t == transactions[k]
        IN  /\ Has(t, "valor") /\ t.valor > 0 /\ t.valor <= 1000000
            /\ Has(t, "descricao") /\ Len(t.descricao) \in 3..100
            /\ Has(t, "tipo") /\ t.tipo \in {"receita", "despesa"}
            /\ Has(t, "categoriaId") /\ t.categoriaId # 0

(***************************************************************************)
(* Updates and failures (Spec)                                             *)
(***************************************************************************)
\* C21: every stored category's limiteGasto, when the category has one, lies
\* in [0, 1000000]: an updateCategory whose patch carries only a limiteGasto
\* outside the bounds is rejected and writes nothing
C21_StoredLimitInBounds ==
    \A k \in DOMAIN categories :
        Has(categories[k], "limiteGasto") =>
            (categories[k].limiteGasto >= 0 /\ categories[k].limiteGasto <= 1000000)

\* a call that failed for another reason than a store call that failed: the
\* message is not one of the catch blocks' messages
BusinessFailure(r) ==
    /\ r.op \in {"createCategory", "updateCategory", "deleteCategory",
                 "createTransaction", "updateTransaction", "deleteTransaction"}
    /\ ~r.success
    /\ r.message \notin {"Erro ao criar categoria. Tente novamente.",
                         "Erro ao atualizar categoria. Tente novamente.",
                         "Erro ao deletar categoria. Tente novamente.",
                         "Erro ao criar transação. Tente novamente.",
                         "Erro ao atualizar transação. Tente novamente.",
                         "Erro ao deletar transação. Tente novamente."}

\* C29: a call that returns success=false for a business reason (validation,
\* category not found, duplicate name, category in use, missing id) leaves
\* both collections as they were
C29_BusinessFailureWritesNothing ==
    [][BusinessFailure(result') =>
        (categories' = categories /\ transactions' = transactions)]_vars

\* a category in use has been refused deletion, and the store holds it still
C29_Witness ==
    ~(/\ result.op = "deleteCategory"
      /\ BusinessFailure(result)
      /\ result.message # "ID da categoria é obrigatório"
      /\ \E k \in DOMAIN transactions :
            /\ Has(transactions[k], "categoriaId")
            /\ transactions[k].categoriaId \in DOMAIN categories)

\* C30: an update never changes the set of ids in the store, and an update
\* of an id that the store does not hold fails
C30_UpdateNeverCreates ==
    [][/\ result'.op = "updateTransaction" =>
            /\ DOMAIN transactions' = DOMAIN transactions
            /\ \A data \in TransactionPatches :
                (data.id \notin DOMAIN transactions
                    /\ UpdateTransaction(data, TRUE, TRUE)) => ~result'.success
       /\ result'.op = "updateCategory" =>
            /\ DOMAIN categories' = DOMAIN categories
            /\ \A data \in CategoryPatches :
                (data.id \notin DOMAIN categories
                    /\ UpdateCategory(data, TRUE, TRUE)) => ~result'.success]_vars

(***************************************************************************)
(* Further claims on the views (SpecChart, SpecViews)                      *)
(***************************************************************************)
\* C22: the evolution chart never has more than the budget of 30 points and
\* the appended final day, and no day is shown twice
C22_SeriesWithinBudget ==
    (result.op = "updateCharts" /\ result.success) =>
        LET evolution == result.data[1].evolution
        IN  /\ Len(evolution) <= maxPoints + 1
            /\ \A i \in 1..Len(evolution), j \in 1..Len(evolution) :
                i # j => evolution[i].label # evolution[j].label

\* C24: the transactions that updateCharts hands on with the type "both" are
\* all the loaded ones when the period is all time, and with a period of N
\* days exactly the loaded ones dated on or after the day N days before today
C24_PeriodFilter ==
    [][result'.op = "updateCharts" =>
        \A period \in ChartPeriods :
            UpdateCharts(period, "both", TRUE, TRUE, TRUE) =>
                LET loaded == loadData(transactions, categories, TRUE, TRUE, TRUE).transactions
                    filtered ==
                        filterTransactionsByType(
                            filterTransactionsByPeriod(loaded, period, now), "both")
                    today == LocalCivil(now, tz)
                    firstDay == DaysFromCivil(today[1], today[2], today[3]) - period
                IN  /\ sumCount(result'.data[1].breakdown) = Len(filtered)
                    /\ IF period = 0 - 1 THEN filtered = loaded
                       ELSE filtered =
                            SelectSeq(loaded, LAMBDA t :
                                /\ Has(t, "data")
                                /\ DaysFromCivil(t.data[1], t.data[2], t.data[3])
                                        >= firstDay)]_vars

\* income less expense over the transactions of a list dated up to a day
netUntil(list, day) ==
    LET dated == SelectSeq(list, LAMBDA t : Has(t, "data") /\ DateParse(t.data) <= DateParse(day))
    IN  NumSub(sumValor(filterTransactionsByType(dated, "income")),
               sumValor(filterTransactionsByType(dated, "expense")))

\* C23: the daily balances that the evolution chart is drawn from have a
\* value for every calendar day from the first transaction's date to today,
\* and the value of a day is the income less the expense of the transactions
\* dated on or before it (so a day without transactions has the value of the
\* day before, a day of income only no less, a day of expense only no more)
C23_DailyBalanceIsRunningNet ==
    (result.op = "updateCharts" /\ result.success) =>
        LET list == loadData(transactions, categories, TRUE, TRUE, TRUE).transactions
            sorted == sortOldestFirst(list)
            dailyBalance == dailyBalanceUntil(sorted, now)
            today == LocalCivil(now, tz)
            days == {CivilFromDays(n) :
                        n \in (DateParse(sorted[1].data) \div MinutesPerDay)
                                ..DaysFromCivil(today[1], today[2], today[3])}
        IN  list # <<>> =>
                \A day \in days :
                    /\ day \in DOMAIN dailyBalance
                    /\ dailyBalance[day] = netUntil(list, day)

(***************************************************************************)
(* SpecBreakdown: the category breakdown over a ledger of one day whose    *)
(* second transaction gets a new date                                      *)
(***************************************************************************)
MaxBreakdownCat == 2    \* push() keys handed out under categories/{userId}
MaxBreakdownTx == 3     \* push() keys handed out under transactions/{userId}

BreakdownTransactionInputs ==
    {TransactionData(sMercado, valor, "despesa", c, Jan15) :
        valor \in {5, 9}, c \in 1..MaxBreakdownCat}

\* the edit of a date: the patch holds the id and the date
BreakdownPatches == {[id |-> 2, data |-> Jan15]}

NextBreakdown ==
    \/ \E data \in LedgerCategoryInputs :
        nextCatKey <= MaxBreakdownCat /\ CreateCategory(data, TRUE, TRUE)
        /\ UNCHANGED pending
    \/ \E data \in BreakdownTransactionInputs :
        nextTxKey <= MaxBreakdownTx /\ CreateTransaction(data, TRUE, TRUE)
        /\ UNCHANGED pending
    \/ \E data \in BreakdownPatches : UpdateTransaction(data, TRUE, TRUE)
        /\ UNCHANGED pending
    \/ \E type \in ChartTypes : UpdateCharts(0 - 1, type, TRUE, TRUE, TRUE)
        /\ UNCHANGED pending

SpecBreakdown == Init /\ [][NextBreakdown]_vars

\* the rows of the breakdown before they are sorted: a category has a row
\* from the first of its transactions on, in the order of these
rowsEncountered(list, cats) ==
    LET categoryData == categoryDataOf(list)
    IN  [i \in 1..Len(categoryData) |->
            [name |-> categoryName(cats, categoryData[i].key, UnknownCategory),
             income |-> categoryData[i].income,
             expense |-> categoryData[i].expense,
             total |-> NumSub(categoryData[i].income, categoryData[i].expense),
             count |-> categoryData[i].count]]

MaxSessionTx == 2   \* push() keys handed out under transactions/{userId}

\* AuthController.login: when the sign-in is accepted AuthService keeps the user
Login(signInOk) ==
    /\ UNCHANGED <<categories, transactions, nextCatKey, nextTxKey, now, tz, pending>>
    /\ IF signInOk
       THEN /\ currentUser' = userId
            /\ result' = Response("login", TRUE, "Login realizado com sucesso!", 0, NoData)
       ELSE /\ UNCHANGED currentUser
            /\ result' = Response("login", FALSE, "Erro inesperado. Tente novamente.", 0, NoData)

\* AuthController.logout: await signOut(auth); this.currentUser = null
Logout(signOutOk) ==
    /\ UNCHANGED <<categories, transactions, nextCatKey, nextTxKey, now, tz, pending>>
    /\ IF signOutOk
       THEN /\ currentUser' = NoUser
            /\ result' = Response("logout", TRUE, "Logout realizado com sucesso!", 0, NoData)
       ELSE /\ UNCHANGED currentUser
            /\ result' = Response("logout", FALSE, "Erro ao fazer logout", 0, NoData)

\* the observer that AuthService.onAuthStateChange registers
AuthStateChange(firebaseUser) ==
    /\ UNCHANGED <<categories, transactions, nextCatKey, nextTxKey, now, tz, pending>>
    /\ currentUser' = firebaseUser
    /\ result' = Response("onAuthStateChanged", TRUE, "", 0, NoData)

\* getQuickSummary starting its reads before it looks at the user: a read
\* that fails is then reported in place of the missing user
GetQuickSummaryReadingFirst(summaryOk, categoriesOk) ==
    LET summaryResult == getFinancialSummary(transactions, summaryOk)
        categoriesResult == getUserCategories(categories, categoriesOk)
    IN  /\ UNCHANGED <<categories, transactions, nextCatKey, nextTxKey, now, tz, currentUser, pending>>
        /\ result' =
            IF ~summaryResult.success \/ ~categoriesResult.success
            THEN Response("getQuickSummary", FALSE, "Erro ao carregar resumo", 0, NoData)
            ELSE IF currentUser = NoUser
            THEN Response("getQuickSummary", FALSE, "Usuário não autenticado", 0, NoData)
            ELSE Response("getQuickSummary", TRUE, "Resumo carregado!", 0,
                    <<[saldo |-> summaryResult.summary[1].saldo,
                       totalReceitas |-> summaryResult.summary[1].totalReceitas,
                       totalDespesas |-> summaryResult.summary[1].totalDespesas,
                       transactionsCount |-> summaryResult.summary[1].transacoesCount,
                       categoriesCount |-> Len(categoriesResult.categories)]>>)

\* DashboardController.getQuickSummary()
GetQuickSummary(summaryOk, categoriesOk) ==
    LET summaryResult == getFinancialSummary(transactions, summaryOk)
        categoriesResult == getUserCategories(categories, categoriesOk)
    IN  /\ UNCHANGED <<categories, transactions, nextCatKey, nextTxKey, now, tz, currentUser, pending>>
        /\ result' =
            IF currentUser = NoUser
            THEN Response("getQuickSummary", FALSE, "Usuário não autenticado", 0, NoData)
            ELSE IF ~summaryResult.success \/ ~categoriesResult.success
            THEN Response("getQuickSummary", FALSE, "Erro ao carregar resumo", 0, NoData)
            ELSE Response("getQuickSummary", TRUE, "Resumo carregado!", 0,
                    <<[saldo |-> summaryResult.summary[1].saldo,
                       totalReceitas |-> summaryResult.summary[1].totalReceitas,
                       totalDespesas |-> summaryResult.summary[1].totalDespesas,
                       transactionsCount |-> summaryResult.summary[1].transacoesCount,
                       categoriesCount |-> Len(categoriesResult.categories)]>>)

\* the filters getChartsData is called with: none, or a type
ChartsDataFilters ==
    {<<>>, [type |-> "income"], [type |-> "expense"], [type |-> "both"]}

\* DashboardController.getChartsData(filters)
GetChartsData(filters, transactionsOk, categoriesOk) ==
    LET list == getTransactionsByUser(transactions)
        filterOptions ==
            IF Has(filters, "type") /\ filters.type # "both"
            THEN [tipo |-> IF filters.type = "income" THEN "receita" ELSE "despesa"]
            ELSE <<>>
        transactionsResult ==
            IF Has(filters, "type")
            THEN [success |-> transactionsOk, transactions |-> filterTipo(list, filterOptions)]
            ELSE getUserTransactions(transactions, transactionsOk)
        categoriesResult == getUserCategories(categories, categoriesOk)
    IN  /\ UNCHANGED <<categories, transactions, nextCatKey, nextTxKey, now, tz, currentUser, pending>>
        /\ result' =
            IF currentUser = NoUser
            THEN Response("getChartsData", FALSE, "Usuário não autenticado", 0, NoData)
            ELSE IF ~transactionsResult.success \/ ~categoriesResult.success
            THEN Response("getChartsData", FALSE, "Erro ao carregar dados para gráficos", 0, NoData)
            ELSE Response("getChartsData", TRUE, "Dados para gráficos carregados!", 0,
                    <<[transactions |-> transactionsResult.transactions,
                       categories |-> categoriesResult.categories]>>)

\* DashboardController.checkDataCompleteness(): a read that failed counts as
\* an empty collection
CheckDataCompleteness(transactionsOk, categoriesOk) ==
    LET transactionsResult == getUserTransactions(transactions, transactionsOk)
        categoriesResult == getUserCategories(categories, categoriesOk)
        hasTransactions == Len(transactionsResult.transactions) > 0
        hasCategoriesNow == Len(categoriesResult.categories) > 0
        suggestedActions ==
            (IF ~hasCategoriesNow
             THEN <<"Crie suas primeiras categorias para organizar suas finanças">>
             ELSE <<>>)
            \o (IF ~hasTransactions
                THEN <<"Adicione suas primeiras transações para começar o controle">>
                ELSE <<>>)
            \o (IF hasCategoriesNow /\ hasTransactions
                THEN <<"Explore os gráficos para analisar seus gastos">>
                ELSE <<>>)
    IN  /\ UNCHANGED <<categories, transactions, nextCatKey, nextTxKey, now, tz, currentUser, pending>>
        /\ result' =
            IF currentUser = NoUser
            THEN Response("checkDataCompleteness", FALSE, "Usuário não autenticado", 0, NoData)
            ELSE Response("checkDataCompleteness", TRUE, "Completude dos dados verificada!", 0,
                    <<[hasTransactions |-> hasTransactions,
                       hasCategories |-> hasCategoriesNow,
                       suggestedActions |-> suggestedActions]>>)

\* DashboardView.loadDashboardData(): the view reads the categories, calls
\* createDefaultCategories when the read succeeded with an empty list, and
\* then calls the controller's loadDashboardData, whose result it shows
DashboardViewLoadDashboardData(checkOk, readOk, writeOks, loadOks) ==
    LET categoriesResult == getUserCategories(categories, checkOk)
        bootstrap ==
            /\ categoriesResult.success
            /\ Len(categoriesResult.categories) = 0
            /\ readOk
            /\ ~hasCategories(getCategoriesByUser(categories))
        done == createDefaultsLoop(categories, nextCatKey, writeOks)
        cats == IF bootstrap THEN done.categories ELSE categories
        loaded == loadDashboardData(transactions, cats, loadOks[1], loadOks[2], loadOks[3])
    IN  /\ currentUser # NoUser
        /\ UNCHANGED <<transactions, nextTxKey, now, tz, currentUser, pending>>
        /\ categories' = cats
        /\ nextCatKey' = IF bootstrap THEN done.nextKey ELSE nextCatKey
        /\ result' = Response("loadDashboardData", loaded.success, loaded.message, 0,
                IF loaded.success
                THEN <<[summary |-> loaded.summary[1],
                        recentTransactions |-> loaded.recentTransactions,
                        categories |-> loaded.categories]>>
                ELSE NoData)

\* loadDashboardData as the store sees it.  Promise.all starts the three
\* fetches in turn and the store serves them in turn among the requests of
\* other clients: first the read under calculateBalance ...
LoadDashboardDataFetch(c) ==
    /\ pending[c] = Idle
    /\ UNCHANGED <<categories, transactions, nextCatKey, nextTxKey, now, tz, currentUser>>
    /\ IF currentUser = NoUser
       THEN /\ result' = Response("loadDashboardData", FALSE, "Usuário não autenticado", 0, NoData)
            /\ UNCHANGED pending
       ELSE /\ pending' = [pending EXCEPT ![c] =
                    Waiting("loadDashboardData", "fetch",
                            getFinancialSummary(transactions, TRUE).summary)]
            /\ UNCHANGED result

\* ... then the reads of getUserTransactions and getUserCategories, after
\* which the three results are composed
LoadDashboardDataCompose(c) ==
    LET loaded == loadDashboardData(transactions, categories, TRUE, TRUE, TRUE)
    IN  /\ pending[c].op = "loadDashboardData"
        /\ pending[c].pc = "fetch"
        /\ UNCHANGED <<categories, transactions, nextCatKey, nextTxKey, now, tz, currentUser>>
        /\ pending' = [pending EXCEPT ![c] = Idle]
        /\ result' = Response("loadDashboardData", TRUE, loaded.message, 0,
                <<[summary |-> pending[c].arg[1],
                   recentTransactions |-> loaded.recentTransactions,
                   categories |-> loaded.categories]>>)

NextSession ==
    \/ \E signInOk \in BOOLEAN : Login(signInOk)
    \/ \E signOutOk \in BOOLEAN : Logout(signOutOk)
    \/ \E firebaseUser \in {NoUser, userId} : AuthStateChange(firebaseUser)
    \/ \E summaryOk \in BOOLEAN, transactionsOk \in BOOLEAN, categoriesOk \in BOOLEAN :
        LoadDashboardData(summaryOk, transactionsOk, categoriesOk)
        /\ UNCHANGED pending
    \/ \E summaryOk \in BOOLEAN, categoriesOk \in BOOLEAN :
        GetQuickSummary(summaryOk, categoriesOk)
    \/ \E filters \in ChartsDataFilters, transactionsOk \in BOOLEAN, categoriesOk \in BOOLEAN :
        GetChartsData(filters, transactionsOk, categoriesOk)
    \/ \E transactionsOk \in BOOLEAN, categoriesOk \in BOOLEAN :
        CheckDataCompleteness(transactionsOk, categoriesOk)
    \/ \E checkOk \in BOOLEAN, readOk \in BOOLEAN :
        DashboardViewLoadDashboardData(checkOk, readOk, AllWritesOk, <<TRUE, TRUE, TRUE>>)
    \/ \E c \in Callers : LoadDashboardDataFetch(c)
    \/ \E c \in Callers : LoadDashboardDataCompose(c)
    \/ \E data \in DashTransactionInputs(nextTxKey) :
        nextTxKey <= MaxSessionTx /\ CreateTransaction(data, TRUE, TRUE)
        /\ UNCHANGED pending
    \/ \E transactionId \in 1..MaxSessionTx :
        DeleteTransaction(transactionId, TRUE)
        /\ UNCHANGED pending

\* nobody is signed in when the page has loaded
InitSession == InitStore /\ tz = BRT /\ currentUser = NoUser

SpecSession == InitSession /\ [][NextSession]_vars


(***************************************************************************)
(* Claims on the session (SpecSession)                                     *)
(***************************************************************************)
\* C26: a successful loadDashboardData result, whether it was asked for by
\* the dashboard view's refresh or by the chart modal, never carries an empty
\* category list: the catalog has been created before the result is composed
C26_DashboardHasCategories ==
    (result.op = "loadDashboardData" /\ result.success)
        => Len(result.data[1].categories) > 0

\* C27: the summary of a successful loadDashboardData result is the balance
\* of the transactions its list was read from, also when a createTransaction
\* or a deleteTransaction is served between its fetches
C27_SummaryMatchesList ==
    (result.op = "loadDashboardData" /\ result.success)
        => LET data == result.data[1]
               balance == calculateBalanceLoop(data.recentTransactions, Num(0), Num(0))
           IN  /\ Len(data.recentTransactions) < MAX_RECENT_TRANSACTIONS
               /\ data.summary.saldo = balance.saldo
               /\ data.summary.totalReceitas = balance.receitas
               /\ data.summary.totalDespesas = balance.despesas

DashboardOperations ==
    {"loadDashboardData", "getQuickSummary", "getChartsData", "checkDataCompleteness"}

\* C28: a call of loadDashboardData, getQuickSummary, getChartsData or
\* checkDataCompleteness made while there is no current user returns the
\* failure 'Usuário não autenticado' whatever the store would have answered,
\* and leaves the store and the calls in flight as they are
C28_NoUserNoRead ==
    [][(currentUser = NoUser /\ result'.op \in DashboardOperations /\ pending' = pending)
        => /\ result' = Response(result'.op, FALSE, "Usuário não autenticado", 0, NoData)
           /\ categories' = categories
           /\ transactions' = transactions
           /\ currentUser' = NoUser]_vars

\* after a sign-out, with transactions in the store, getChartsData has been refused
C28_Witness ==
    ~(/\ currentUser = NoUser
      /\ DOMAIN transactions # {}
      /\ result = Response("getChartsData", FALSE, "Usuário não autenticado", 0, NoData))

====
